---- MODULE Spec2Model ----
(***************************************************************************)
(* Model of the diagram backend: the ERD normalizer (schemas/erd-ai.ts),   *)
(* the patch-operations engine (services/diagrams/ops.ts) and the diagram  *)
(* controllers' read-modify-write protocol on a stored diagram.            *)
(*                                                                         *)
(* Strings that the code cuts at hyphens (field ids, handles) are          *)
(* sequences of hyphen-free segments: "users-id-left" is                   *)
(* <<"users", "id", "left">>.  The empty sequence is JavaScript's          *)
(* undefined, <<"">> the empty string and <<" ">> a blank string.  Other   *)
(* strings are atomic; Undef stands for a missing property.                *)
(***************************************************************************)
EXTENDS Integers, Sequences, FiniteSets, TLC

VARIABLES nIn, nOut, nPc, oDoc, oOps, oRes, oPc, oCtl, db, req, started,
          cIn, cOut, cPc, store, gen

normVars == <<nIn, nOut, nPc>>

opsVars == <<oDoc, oOps, oRes, oPc, oCtl>>

reqVars == <<req, started>>

\* One call of a function of the handle codec or of the SQL compiler.
callVars == <<cIn, cOut, cPc>>

\* The state of the specifications of single components.
auxVars == <<callVars, store, gen>>

vars == <<nIn, nOut, nPc, oDoc, oOps, oRes, oPc, oCtl, db, req, started, auxVars>>

(* ------------------------------ bounds --------------------------------- *)
MaxNormNodes == 2
MaxNormEdges == 1

(* ------------------------------ strings -------------------------------- *)
Undef == "undefined"

NoHandle == <<>>

RECURSIVE SeqsUpTo(_, _)
SeqsUpTo(S, n) ==
  IF n = 0 THEN {<<>>}
  ELSE LET shorter == SeqsUpTo(S, n - 1)
       IN  shorter \cup {Append(s, x) : s \in {t \in shorter : Len(t) = n - 1}, x \in S}

\* String.prototype.trim on an atomic string: the only blank string is " ".
TrimS(s) == IF s = " " THEN "" ELSE s

\* trim on a segmented string.
TrimH(h) == IF h = <<" ">> THEN <<"">> ELSE h

\* z.string().min(1): a string of length >= 1 (checked before .trim()).
StrMin1(s) == s # Undef /\ s # ""

SegMin1(h) == h # <<>> /\ h # <<"">>

\* JavaScript truthiness of an optional string.
Truthy(h) == h # <<>> /\ h # <<"">>

\* h.replace(/-(left|right)$/, ""): case-sensitive, needs the hyphen.
ReplaceSide(h) ==
  IF Len(h) >= 2 /\ h[Len(h)] \in {"left", "right"} THEN SubSeq(h, 1, Len(h) - 1) ELSE h

stripSide(h) == IF Truthy(h) THEN ReplaceSide(h) ELSE NoHandle

forceSide(h, side) == IF Truthy(h) THEN Append(ReplaceSide(h), side) ELSE h

(* ------------------------------ enums ---------------------------------- *)
MarkerStartEnum ==
  {"one-start", "many-start", "zero-start", "zero-to-one-start", "zero-to-many-start"}

MarkerEndEnum ==
  {"one-end", "many-end", "zero-end", "zero-to-one-end", "zero-to-many-end"}

(* --------------------------- loose parsing ------------------------------ *)
\* A thrown exception, as a result value.
Throw == [ok |-> FALSE, nodes |-> <<>>, edges |-> <<>>]

\* ZSchemaFieldLoose: id, title and type are required strings of length >= 1.
FieldLooseOk(f) == SegMin1(f.id) /\ StrMin1(f.title) /\ StrMin1(f.type)

\* ZSchemaFieldLoose output: trimmed strings, key kept only when PK or FK.
FieldLoose(f) ==
  [id       |-> TrimH(f.id),
   title    |-> TrimS(f.title),
   type     |-> TrimS(f.type),
   key      |-> IF f.key \in {"PK", "FK"} THEN f.key ELSE Undef,
   nullable |-> f.nullable]

\* ZNodeLoose: id required, type the literal, data optional (label required in it).
NodeLooseOk(n) ==
  /\ StrMin1(n.id)
  /\ n.type = "databaseSchema"
  /\ n.hasData =>
       /\ StrMin1(n.label)
       /\ \A i \in 1..Len(n.schema) : FieldLooseOk(n.schema[i])

\* ZNodeLoose output: position defaults to {0,0}, data to {label:"Table", schema:[]}.
NodeLoose(n) ==
  [id       |-> TrimS(n.id),
   type     |-> n.type,
   position |-> IF n.position = Undef THEN "origin" ELSE n.position,
   hasData  |-> TRUE,
   label    |-> IF n.hasData THEN TrimS(n.label) ELSE "Table",
   schema   |-> IF n.hasData THEN [i \in 1..Len(n.schema) |-> FieldLoose(n.schema[i])]
                ELSE <<>>]

\* ZEdgeLoose: id, source, target required; handles, type and markers optional.
EdgeLooseOk(e) ==
  /\ StrMin1(e.id) /\ StrMin1(e.source) /\ StrMin1(e.target)
  /\ e.type \in {Undef, "superCurvyEdge"}
  /\ e.markerStart \in MarkerStartEnum \cup {Undef}
  /\ e.markerEnd \in MarkerEndEnum \cup {Undef}

EdgeLoose(e) ==
  [id           |-> TrimS(e.id),
   source       |-> TrimS(e.source),
   target       |-> TrimS(e.target),
   sourceHandle |-> TrimH(e.sourceHandle),
   targetHandle |-> TrimH(e.targetHandle),
   type         |-> e.type,
   markerStart  |-> e.markerStart,
   markerEnd    |-> e.markerEnd]

\* ZErdLoose: the root is an object; nodes and edges are arrays or default to [].
ErdLooseOk(in) ==
  /\ in.root = "object"
  /\ in.nodesKind \in {"array", "missing"}
  /\ in.edgesKind \in {"array", "missing"}
  /\ in.nodesKind = "array" => \A i \in 1..Len(in.nodes) : NodeLooseOk(in.nodes[i])
  /\ in.edgesKind = "array" => \A i \in 1..Len(in.edges) : EdgeLooseOk(in.edges[i])

ErdLoose(in) ==
  [nodes |-> IF in.nodesKind = "array"
             THEN [i \in 1..Len(in.nodes) |-> NodeLoose(in.nodes[i])] ELSE <<>>,
   edges |-> IF in.edgesKind = "array"
             THEN [i \in 1..Len(in.edges) |-> EdgeLoose(in.edges[i])] ELSE <<>>]

(* --------------------------- strict shapes ------------------------------ *)
\* ZFieldStrict: id, title, type of length >= 1.
FieldStrictOk(f) == SegMin1(f.id) /\ StrMin1(f.title) /\ StrMin1(f.type)

\* ZNodeStrict: id, label of length >= 1; schema is an array (default []), no minimum.
ZNodeStrict(n) ==
  /\ StrMin1(n.id)
  /\ n.type = "databaseSchema"
  /\ n.hasData
  /\ StrMin1(n.label)
  /\ \A i \in 1..Len(n.schema) : FieldStrictOk(n.schema[i])

\* DiagramEdgeAPI: id, source, target of length >= 1; both markers required.
DiagramEdgeAPI(e) ==
  /\ StrMin1(e.id) /\ StrMin1(e.source) /\ StrMin1(e.target)
  /\ e.type = "superCurvyEdge"
  /\ e.markerStart \in MarkerStartEnum
  /\ e.markerEnd \in MarkerEndEnum

(* ---------------------------- normalizeErd ------------------------------ *)
\* tableIndex[id]: Object.fromEntries keeps the last entry of a key.
HasTable(nodes, id) == \E i \in 1..Len(nodes) : nodes[i].id = id

TableOf(nodes, id) ==
  nodes[CHOOSE i \in 1..Len(nodes) :
          /\ nodes[i].id = id
          /\ \A j \in (i + 1)..Len(nodes) : nodes[j].id # id]

HasField(schema, fid) == \E i \in 1..Len(schema) : schema[i].id = fid

FieldOf(schema, fid) ==
  schema[CHOOSE i \in 1..Len(schema) :
           /\ schema[i].id = fid
           /\ \A j \in (i + 1)..Len(schema) : schema[j].id # fid]

\* An inference that looks at the key alone.
inferMarkerEndByKey(nodes, targetId, targetHandle) ==
  IF ~HasTable(nodes, targetId) THEN "many-end"
  ELSE LET t   == TableOf(nodes, targetId)
           fid == stripSide(targetHandle)
       IN  IF fid = NoHandle \/ ~HasField(t.schema, fid) THEN "many-end"
           ELSE IF FieldOf(t.schema, fid).key = "PK" THEN "one-end" ELSE "many-end"

inferMarkerEnd(nodes, targetId, targetHandle) ==
  IF ~HasTable(nodes, targetId) THEN "many-end"
  ELSE LET t   == TableOf(nodes, targetId)
           fid == stripSide(targetHandle)
       IN  IF fid = NoHandle \/ ~HasField(t.schema, fid) THEN "many-end"
           ELSE LET field    == FieldOf(t.schema, fid)
                    isPK     == field.key = "PK"
                    isFK     == field.key = "FK"
                    nullable == field.nullable = "true"
                IN  IF isFK THEN (IF nullable THEN "zero-to-many-end" ELSE "many-end")
                    ELSE IF isPK THEN (IF nullable THEN "zero-to-one-end" ELSE "one-end")
                    ELSE (IF nullable THEN "zero-to-many-end" ELSE "many-end")

\* edges: fill defaults + fix handle sides
NormEdge(nodes, e) ==
  [id           |-> e.id,
   source       |-> e.source,
   target       |-> e.target,
   sourceHandle |-> forceSide(e.sourceHandle, "right"),
   targetHandle |-> forceSide(e.targetHandle, "left"),
   type         |-> IF e.type = Undef THEN "superCurvyEdge" ELSE e.type,
   markerStart  |-> IF e.markerStart = Undef THEN "one-start" ELSE e.markerStart,
   markerEnd    |-> IF e.markerEnd = Undef
                    THEN inferMarkerEnd(nodes, e.target, e.targetHandle)
                    ELSE e.markerEnd]

\* nodes: ensure position + clean fields (nullable is not carried over)
NormField(f) ==
  [id       |-> f.id,
   title    |-> f.title,
   type     |-> f.type,
   key      |-> IF f.key \in {"PK", "FK"} THEN f.key ELSE Undef,
   nullable |-> Undef]

NormNode(n) ==
  [id       |-> n.id,
   type     |-> "databaseSchema",
   position |-> n.position,
   hasData  |-> TRUE,
   label    |-> n.label,
   schema   |-> [i \in 1..Len(n.schema) |-> NormField(n.schema[i])]]

normalizeErd(in) ==
  IF ~ErdLooseOk(in) THEN Throw
  ELSE LET loose == ErdLoose(in)
           edges == [i \in 1..Len(loose.edges) |-> NormEdge(loose.nodes, loose.edges[i])]
           nodes == [i \in 1..Len(loose.nodes) |-> NormNode(loose.nodes[i])]
       IN  IF /\ \A i \in 1..Len(edges) : DiagramEdgeAPI(edges[i])
              /\ \A i \in 1..Len(nodes) : ZNodeStrict(nodes[i])
           THEN [ok |-> TRUE, nodes |-> nodes, edges |-> edges]
           ELSE Throw

\* The argument normalizeErd gets for a graph {nodes, edges} held in memory.
GraphInput(nodes, edges) ==
  [root |-> "object", nodesKind |-> "array", nodes |-> nodes,
   edgesKind |-> "array", edges |-> edges]

(* ============================ stored diagram ============================ *)
(* One diagram of one owner.  version is the counter the controllers filter
   and increment; rev is the revision key (__v) the document library keeps
   itself.  The store keeps version and chat as the controllers write them.
   Message timestamps are left out: no handler reads them. *)
DEFAULT_MODEL == "gemini-2.5-flash-lite"

MAX_CHAT_HISTORY == 100

NoDoc ==
  [exists |-> FALSE, title |-> "", type |-> "", prompt |-> "", model |-> "",
   nodes |-> <<>>, edges |-> <<>>, chat |-> <<>>, version |-> 0, rev |-> 0]

\* DiagramModel.create({... nodes: [], edges: [], chat: [], version: 0})
createDiagram(title) ==
  [exists |-> TRUE, title |-> title, type |-> "erd", prompt |-> "",
   model |-> DEFAULT_MODEL, nodes |-> <<>>, edges |-> <<>>, chat |-> <<>>,
   version |-> 0, rev |-> 0]

\* arr.slice(-n)
SliceLast(arr, n) ==
  IF Len(arr) <= n THEN arr ELSE SubSeq(arr, Len(arr) - n + 1, Len(arr))

Msg(role, content) == [role |-> role, content |-> content]

\* A $set document: Undef and FALSE mark the keys it does not carry.
SetDoc(title, type, prompt, model, graph, nodes, edges, hasChat, chat) ==
  [title |-> title, type |-> type, prompt |-> prompt, model |-> model,
   graph |-> graph, nodes |-> nodes, edges |-> edges, hasChat |-> hasChat, chat |-> chat]

ApplySet(d, set) ==
  [d EXCEPT !.title  = IF set.title = Undef THEN @ ELSE set.title,
            !.type   = IF set.type = Undef THEN @ ELSE set.type,
            !.prompt = IF set.prompt = Undef THEN @ ELSE set.prompt,
            !.model  = IF set.model = Undef THEN @ ELSE set.model,
            !.nodes  = IF set.graph THEN set.nodes ELSE @,
            !.edges  = IF set.graph THEN set.edges ELSE @,
            !.chat   = IF set.hasChat THEN set.chat ELSE @]

\* Three updates the controllers do not issue, each without one part of the
\* conditional update.  The filter {_id} alone: every write matches.
findOneAndUpdateAnyVersion(d, version, set) ==
  IF d.exists
  THEN [doc |-> [ApplySet(d, set) EXCEPT !.version = @ + 1], found |-> TRUE]
  ELSE [doc |-> d, found |-> FALSE]

\* The $set applied even when the filter matched nothing.
findOneAndUpdateWritesOnMiss(d, version, set) ==
  IF d.exists /\ d.version = version
  THEN [doc |-> [ApplySet(d, set) EXCEPT !.version = @ + 1], found |-> TRUE]
  ELSE [doc |-> IF d.exists THEN ApplySet(d, set) ELSE d, found |-> FALSE]

\* $inc left out of the update.
findOneAndUpdateNoInc(d, version, set) ==
  IF d.exists /\ d.version = version
  THEN [doc |-> ApplySet(d, set), found |-> TRUE]
  ELSE [doc |-> d, found |-> FALSE]

\* findOneAndUpdate({_id, version}, {$set: set, $inc: {version: 1}}, {new: true}):
\* one atomic step of the store; found is FALSE when the answer is null.
findOneAndUpdate(d, version, set) ==
  IF d.exists /\ d.version = version
  THEN [doc |-> [ApplySet(d, set) EXCEPT !.version = @ + 1], found |-> TRUE]
  ELSE [doc |-> d, found |-> FALSE]

\* updateDiagramWithResults: title and type are set when truthy.
updateDiagramWithResults(d, baseVersion, updates) ==
  findOneAndUpdate(d, baseVersion,
    SetDoc(IF updates.title \in {Undef, ""} THEN Undef ELSE TrimS(updates.title),
           IF updates.type \in {Undef, ""} THEN Undef ELSE updates.type,
           TrimS(updates.prompt), updates.model,
           TRUE, updates.nodes, updates.edges, TRUE, updates.chat))

(* --------------- the parts a specification does not run ----------------- *)
Requests == {"r1", "r2"}

IdleReq ==
  [pc |-> "idle", kind |-> "", path |-> "", body |-> <<>>, base |-> 0, rev |-> 0,
   nodes |-> <<>>, edges |-> <<>>, dirty |-> FALSE, chat |-> <<>>, model |-> "",
   fail |-> "", resp |-> "", wrote |-> "none", saw |-> 0, edited |-> FALSE,
   sse |-> FALSE]

NormOff == nIn = GraphInput(<<>>, <<>>) /\ nOut = Throw /\ nPc = "off"

OpsOff == oDoc = NoDoc /\ oOps = <<>> /\ oRes = <<>> /\ oPc = "off" /\ oCtl = ""

StoreOff == db = NoDoc /\ req = [r \in Requests |-> IdleReq] /\ started = 0

CallOff == cIn = <<>> /\ cOut = <<>> /\ cPc = "off"

AuxOff == CallOff /\ store = <<>> /\ gen = <<>>

\* The normalizer, the ops batch and the store are not part of a run.
MainOff == NormOff /\ OpsOff /\ StoreOff

(* ------------------- inputs of the normalizer runs ---------------------- *)
Fld(id, title, type, key, nullable) ==
  [id |-> id, title |-> title, type |-> type, key |-> key, nullable |-> nullable]

Nd(id, type, position, hasData, label, schema) ==
  [id |-> id, type |-> type, position |-> position, hasData |-> hasData,
   label |-> label, schema |-> schema]

Edg(id, source, target, sh, th, type, ms, me) ==
  [id |-> id, source |-> source, target |-> target, sourceHandle |-> sh,
   targetHandle |-> th, type |-> type, markerStart |-> ms, markerEnd |-> me]

FUsersId == Fld(<<"users", "id">>, "id", "INT", "PK", "false")
FPostsUser == Fld(<<"posts", "user_id">>, "user_id", "INT", "FK", "true")
FPostsBody == Fld(<<"posts", "body">>, "body", "TEXT", "", Undef)

NormNodeChoices ==
  { Nd("users", "databaseSchema", "placed", TRUE, "Users", <<FUsersId>>),
    Nd("posts", "databaseSchema", Undef, TRUE, "Posts", <<FPostsUser, FPostsBody>>),
    \* no data at all, and data with an empty schema
    Nd("users", "databaseSchema", "placed", FALSE, Undef, <<>>),
    Nd("users", "databaseSchema", "placed", TRUE, "Users", <<>>),
    \* records that lack id, type, label
    Nd(Undef, "databaseSchema", "placed", TRUE, "Users", <<FUsersId>>),
    Nd("users", Undef, "placed", TRUE, "Users", <<FUsersId>>),
    Nd("users", "databaseSchema", "placed", TRUE, Undef, <<FUsersId>>),
    Nd("users", "databaseSchema", "placed", TRUE, " ", <<FUsersId>>),
    \* fields that lack id, title, type
    Nd("users", "databaseSchema", "placed", TRUE, "Users",
       <<Fld(NoHandle, "id", "INT", "PK", "false")>>),
    Nd("users", "databaseSchema", "placed", TRUE, "Users",
       <<Fld(<<"users", "id">>, Undef, "INT", "PK", "false")>>),
    Nd("users", "databaseSchema", "placed", TRUE, "Users",
       <<Fld(<<"users", "id">>, "id", Undef, "PK", "false")>>) }

NormEdgeChoices ==
  { Edg("e1", "users", "posts", <<"users", "id", "right">>, <<"posts", "user_id", "left">>,
        "superCurvyEdge", "one-start", "many-end"),
    \* no type and no markers
    Edg("e1", "users", "posts", <<"users", "id", "right">>, <<"posts", "user_id", "left">>,
        Undef, Undef, Undef),
    \* handles without a side, with the opposite side, with an upper-case side
    Edg("e1", "users", "posts", <<"users", "id">>, <<"posts", "user_id">>,
        Undef, Undef, Undef),
    Edg("e1", "users", "posts", <<"users", "id", "left">>, <<"posts", "user_id", "right">>,
        Undef, Undef, Undef),
    Edg("e1", "users", "posts", <<"users", "id", "RIGHT">>, <<"posts", "user_id", "LEFT">>,
        Undef, Undef, Undef),
    \* no handles
    Edg("e1", "users", "posts", NoHandle, NoHandle, Undef, Undef, Undef),
    \* towards a primary key, and towards a table that is not there
    Edg("e2", "posts", "users", <<"posts", "user_id", "right">>, <<"users", "id", "left">>,
        Undef, Undef, Undef),
    Edg("e3", "users", "tags", <<"users", "id", "right">>, <<"tags", "id", "left">>,
        Undef, "many-start", Undef),
    \* records that lack id, or carry an unknown marker
    Edg(Undef, "users", "posts", <<"users", "id", "right">>, <<"posts", "user_id", "left">>,
        Undef, Undef, Undef),
    Edg("e1", "users", "posts", <<"users", "id", "right">>, <<"posts", "user_id", "left">>,
        Undef, "one", Undef) }

NormInputs ==
  { [root |-> "object", nodesKind |-> nk, nodes |-> ns, edgesKind |-> ek, edges |-> es] :
      nk \in {"array"}, ek \in {"array"},
      ns \in SeqsUpTo(NormNodeChoices, MaxNormNodes),
      es \in SeqsUpTo(NormEdgeChoices, MaxNormEdges) }
  \cup
  { [root |-> r, nodesKind |-> nk, nodes |-> <<>>, edgesKind |-> ek, edges |-> <<>>] :
      r \in {"object", "other"}, nk \in {"missing", "other"}, ek \in {"missing", "other"} }

(* --------------------- the normalizer, applied -------------------------- *)
NormInit ==
  /\ nIn \in NormInputs
  /\ nOut = Throw
  /\ nPc = "call"
  /\ OpsOff
  /\ StoreOff
  /\ AuxOff

\* One call normalizeErd(nIn).
NormCall ==
  /\ nPc = "call"
  /\ nOut' = normalizeErd(nIn)
  /\ nPc' = "returned"
  /\ UNCHANGED <<auxVars, nIn, opsVars, db, reqVars>>

NormNext == NormCall

SpecNorm == NormInit /\ [][NormNext]_vars

(* ---------------- inputs for the inference of markerEnd ---------------- *)
\* The target field takes every key and nullable; the target handle names the
\* field with either side, without a side, a field the table does not have,
\* or is absent; the target is a table of the graph or not; markerEnd is
\* absent or given.
MarkerInputs ==
  {GraphInput(<<Nd("users", "databaseSchema", "origin", TRUE, "Users",
                   <<Fld(<<"users", "id">>, "id", "INT", k, n)>>),
                Nd("posts", "databaseSchema", Undef, TRUE, "Posts", <<FPostsUser>>)>>,
              <<Edg("e1", "posts", t, <<"posts", "user_id", "right">>, h, Undef, Undef, m)>>) :
     k \in {"PK", "FK", "UNIQUE", "", Undef},
     n \in {"true", "false", Undef},
     h \in {<<"users", "id", "left">>, <<"users", "id", "right">>, <<"users", "id">>,
            <<"users", "nope", "left">>, NoHandle},
     t \in {"users", "ghost"},
     m \in {Undef, "one-end", "zero-end"}}

MarkerInit ==
  /\ nIn \in MarkerInputs
  /\ nOut = Throw
  /\ nPc = "call"
  /\ OpsOff
  /\ StoreOff
  /\ AuxOff

SpecMarker == MarkerInit /\ [][NormNext]_vars

(* ------------------- claims about the normalizer ------------------------ *)
\* The strict invariants of a graph: every node has data with a non-empty label
\* and at least one field with non-empty id, title and type; every edge has both
\* markers.
StrictNode(n) ==
  /\ n.hasData
  /\ n.label \notin {Undef, "", " "}
  /\ Len(n.schema) >= 1
  /\ \A i \in 1..Len(n.schema) : FieldStrictOk(n.schema[i])

StrictEdge(e) == e.markerStart \in MarkerStartEnum /\ e.markerEnd \in MarkerEndEnum

StrictGraph(nodes, edges) ==
  /\ \A i \in 1..Len(nodes) : StrictNode(nodes[i])
  /\ \A i \in 1..Len(edges) : StrictEdge(edges[i])

\* C7: for every input whose root is an object normalizeErd returns a graph, and
\* the graph satisfies every strict invariant; it throws only when the root is
\* not an object.
C7_NormalizerTotal ==
  (nPc = "returned" /\ nIn.root = "object" /\ nIn.nodesKind # "other" /\ nIn.edgesKind # "other")
    => (nOut.ok /\ StrictGraph(nOut.nodes, nOut.edges))

\* C8: every node of a graph returned by normalizeErd has at least one field.
C8_EveryNodeHasField ==
  (nPc = "returned" /\ nOut.ok)
    => \A i \in 1..Len(nOut.nodes) : Len(nOut.nodes[i].schema) >= 1

\* The field-id part of a handle as given: the handle without a trailing side,
\* the side read without regard to case.
LowerSide(seg) ==
  IF seg = "LEFT" THEN "left" ELSE IF seg = "RIGHT" THEN "right" ELSE seg

FieldIdPart(h) ==
  IF Len(h) >= 2 /\ LowerSide(h[Len(h)]) \in {"left", "right"}
  THEN SubSeq(h, 1, Len(h) - 1) ELSE h

EndsWithSide(h, side) == Len(h) >= 2 /\ h[Len(h)] = side

\* C9: every edge of a graph returned by normalizeErd has both markers, a
\* sourceHandle ending in -right and a targetHandle ending in -left, and the
\* field-id part of each handle is the one the input edge had.
C9_EdgesSided ==
  (nPc = "returned" /\ nOut.ok)
    => \A i \in 1..Len(nOut.edges) :
         LET e == nOut.edges[i]
             g == nIn.edges[i]
         IN  /\ StrictEdge(e)
             /\ EndsWithSide(e.sourceHandle, "right")
             /\ EndsWithSide(e.targetHandle, "left")
             /\ SubSeq(e.sourceHandle, 1, Len(e.sourceHandle) - 1) = FieldIdPart(g.sourceHandle)
             /\ SubSeq(e.targetHandle, 1, Len(e.targetHandle) - 1) = FieldIdPart(g.targetHandle)

(* ======================= patch-operations engine ======================== *)
Op(op, tableId, id, title, type, key, oldId, newId, newLabel, fieldId) ==
  [op |-> op, tableId |-> tableId, id |-> id, title |-> title, type |-> type,
   key |-> key, oldId |-> oldId, newId |-> newId, newLabel |-> newLabel,
   fieldId |-> fieldId]

AddField(tableId, id, title, type, key) ==
  Op("add_field", tableId, id, title, type, key, Undef, Undef, Undef, NoHandle)

RenameTable(oldId, newId, newLabel) ==
  Op("rename_table", Undef, NoHandle, Undef, Undef, Undef, oldId, newId, newLabel, NoHandle)

DeleteField(tableId, fieldId) ==
  Op("delete_field", tableId, NoHandle, Undef, Undef, Undef, Undef, Undef, Undef, fieldId)

\* KEY_MAP[String(k ?? "NONE").toUpperCase()] ?? "NONE"
toCanonicalKey(k) ==
  IF k \in {"PRIMARY", "PK", "primary", "pk"} THEN "PK"
  ELSE IF k \in {"FOREIGN", "FK", "foreign", "fk"} THEN "FK"
  ELSE IF k \in {"UNIQUE", "unique"} THEN "UNIQUE"
  ELSE "NONE"

\* A copy that still shares its objects with v (what clone must not be).
cloneAliased(v) == [val |-> v, shared |-> TRUE]

\* structuredClone(v): a deep copy, which shares no object with v.
clone(v) == [val |-> v, shared |-> FALSE]

\* Lower-casing of a segment, for the regexes that carry the i flag.
LowerSeg(seg) ==
  IF seg = "LEFT" THEN "left"
  ELSE IF seg = "RIGHT" THEN "right"
  ELSE IF seg = "USERS" THEN "users"
  ELSE IF seg = "ID" THEN "id"
  ELSE seg

LowerH(h) == [i \in 1..Len(h) |-> LowerSeg(h[i])]

\* new RegExp(`^${escapeRegExp(fieldId)}-(left|right)$`, "i").test(h || "")
TouchesField(h, fieldId) ==
  /\ Len(h) = Len(fieldId) + 1
  /\ LowerH(SubSeq(h, 1, Len(fieldId))) = LowerH(fieldId)
  /\ LowerSeg(h[Len(h)]) \in {"left", "right"}

\* removeEdgesTouchingField: diagram.edges is replaced by the filtered array.
removeEdgesTouchingField(diagram, fieldId) ==
  LET Keep(e) == ~(TouchesField(e.sourceHandle, fieldId) \/ TouchesField(e.targetHandle, fieldId))
  IN  [diagram EXCEPT !.edges = SelectSeq(diagram.edges, Keep)]

\* rewriteHandlesForFieldRename: handles of the old field now name the new one.
RenamedHandle(h, oldFieldId, newFieldId) ==
  IF TouchesField(h, oldFieldId)
  THEN Append(newFieldId, IF LowerSeg(h[Len(h)]) = "left" THEN "left" ELSE "right")
  ELSE h

rewriteHandlesForFieldRename(diagram, oldFieldId, newFieldId) ==
  [diagram EXCEPT !.edges =
     [i \in 1..Len(diagram.edges) |->
        [diagram.edges[i] EXCEPT
           !.sourceHandle = RenamedHandle(@, oldFieldId, newFieldId),
           !.targetHandle = RenamedHandle(@, oldFieldId, newFieldId)]]]

\* A rewrite that moves the sources only.
rewriteEdgesSourceOnly(edges, oldId, newId) ==
  [i \in 1..Len(edges) |-> [edges[i] EXCEPT !.source = IF @ = oldId THEN newId ELSE @]]

\* rewriteEdgesOnTableRename: the edge objects are changed in place.
rewriteEdgesOnTableRename(edges, oldId, newId) ==
  [i \in 1..Len(edges) |->
     [edges[i] EXCEPT !.source = IF @ = oldId THEN newId ELSE @,
                      !.target = IF @ = oldId THEN newId ELSE @]]

(* byId: a Map from node id to node object; an entry is [k, o], o the index of
   the node object in the cloned nodes array.  A Map iterates in insertion
   order, and set() on a present key keeps the key's place. *)
MapHas(m, k) == \E i \in 1..Len(m) : m[i].k = k

MapGet(m, k) == m[CHOOSE i \in 1..Len(m) : m[i].k = k].o

MapSet(m, k, o) ==
  IF MapHas(m, k) THEN [i \in 1..Len(m) |-> IF m[i].k = k THEN [k |-> k, o |-> o] ELSE m[i]]
  ELSE Append(m, [k |-> k, o |-> o])

MapDelete(m, k) == LET Keep(en) == en.k # k IN SelectSeq(m, Keep)

RECURSIVE MapFrom(_, _)
MapFrom(nodes, n) ==
  IF n = 0 THEN <<>> ELSE MapSet(MapFrom(nodes, n - 1), nodes[n].id, n)

\* getSchema: (t.data ||= { label: t.id, schema: [] }).schema ||= []
WithData(t) == IF t.hasData THEN t ELSE [t EXCEPT !.hasData = TRUE, !.label = t.id, !.schema = <<>>]

\* One op applied to the working state st = [objs, map, edges, err].
ApplyOp(st, raw) ==
  IF raw.op = "add_field" THEN
    IF ~MapHas(st.map, raw.tableId) THEN [st EXCEPT !.err = "Table not found"]
    ELSE LET o == MapGet(st.map, raw.tableId)
             t == WithData(st.objs[o])
         IN  IF HasField(t.schema, raw.id)
             THEN [st EXCEPT !.objs[o] = t, !.err = "Field id exists"]
             ELSE [st EXCEPT !.objs[o] =
                     [t EXCEPT !.schema =
                        Append(@, Fld(raw.id, raw.title, raw.type, toCanonicalKey(raw.key), "true"))]]
  ELSE IF raw.op = "rename_table" THEN
    IF ~MapHas(st.map, raw.oldId) THEN [st EXCEPT !.err = "Table not found"]
    ELSE IF MapHas(st.map, raw.newId) THEN [st EXCEPT !.err = "New table id exists"]
    ELSE LET o == MapGet(st.map, raw.oldId)
             t == st.objs[o]
             label == IF raw.newLabel # Undef THEN raw.newLabel
                      ELSE IF t.hasData /\ t.label # Undef THEN t.label
                      ELSE raw.newId
         IN  [st EXCEPT
                !.objs[o] = [t EXCEPT !.id = raw.newId, !.hasData = TRUE, !.label = label],
                !.edges = rewriteEdgesOnTableRename(st.edges, raw.oldId, raw.newId),
                !.map = MapSet(MapDelete(st.map, raw.oldId), raw.newId, o)]
  ELSE IF raw.op = "delete_field" THEN
    IF ~MapHas(st.map, raw.tableId) THEN [st EXCEPT !.err = "Table not found"]
    ELSE LET o == MapGet(st.map, raw.tableId)
             t == WithData(st.objs[o])
             Keep(f) == f.id # raw.fieldId
             kept == SelectSeq(t.schema, Keep)
             \* the filtered edges land in the object literal { edges } only
             literal == removeEdgesTouchingField([edges |-> st.edges], raw.fieldId)
         IN  IF Len(kept) = Len(t.schema)
             THEN [st EXCEPT !.objs[o] = t, !.err = "Field not found"]
             ELSE [st EXCEPT !.objs[o] = [t EXCEPT !.schema = kept]]
  ELSE st

RECURSIVE RunOps(_, _, _)
RunOps(st, ops, i) ==
  IF i > Len(ops) \/ st.err # "" THEN st
  ELSE RunOps(ApplyOp(st, ops[i]), ops, i + 1)

\* applyOpsInMemory(doc, ops): the result, and the document as the call leaves it.
applyOpsInMemory(doc, ops) ==
  LET nodes == clone(doc.nodes)
      edges == clone(doc.edges)
      st0   == [objs |-> nodes.val, map |-> MapFrom(nodes.val, Len(nodes.val)),
                edges |-> edges.val, err |-> ""]
      st    == RunOps(st0, ops, 1)
  IN  [ok       |-> st.err = "",
       err      |-> st.err,
       nodes    |-> IF st.err = "" THEN [i \in 1..Len(st.map) |-> st.objs[st.map[i].o]] ELSE <<>>,
       edges    |-> IF st.err = "" THEN st.edges ELSE <<>>,
       docNodes |-> IF nodes.shared THEN st.objs ELSE doc.nodes,
       docEdges |-> IF edges.shared THEN st.edges ELSE doc.edges]

(* ====================== processing of an AI answer ====================== *)
\* What the provider call ends in: patch operations, a graph, or a failure.
AiOps(ops) == [kind |-> "ops", ops |-> ops, nodes |-> <<>>, edges |-> <<>>, error |-> ""]

AiGraph(nodes, edges) ==
  [kind |-> "graph", ops |-> <<>>, nodes |-> nodes, edges |-> edges, error |-> ""]

AiError(msg) == [kind |-> "error", ops |-> <<>>, nodes |-> <<>>, edges |-> <<>>, error |-> msg]

\* ai.ops.map(o => o.op === "add_field" ? {...o, key: toCanonicalKey(o.key)} : o)
NormalizedOps(ops) ==
  [i \in 1..Len(ops) |->
     IF ops[i].op = "add_field" THEN [ops[i] EXCEPT !.key = toCanonicalKey(@)] ELSE ops[i]]

\* The message of the error the strict validation throws.
ZodErrorMessage == "Invalid diagram"

\* Every answer read as a graph: its ops are passed over.
processAsGraph(ai, existing) ==
  LET strict == normalizeErd(GraphInput(ai.nodes, ai.edges))
  IN  [ok       |-> strict.ok,
       raised   |-> FALSE,
       err      |-> IF strict.ok THEN "" ELSE ZodErrorMessage,
       nodes    |-> strict.nodes,
       edges    |-> strict.edges,
       docNodes |-> existing.nodes,
       docEdges |-> existing.edges]

(* The graph an AI answer turns into, or the error thrown on the way; raised
   tells that applyOpsInMemory threw.  docNodes and docEdges are the graph of
   the document handed to applyOpsInMemory, as the call leaves it. *)
processAIGenerationResult(ai, existing) ==
  IF ai.kind = "ops"
  THEN LET applied == applyOpsInMemory(existing, NormalizedOps(ai.ops))
           strict  == IF applied.ok
                      THEN normalizeErd(GraphInput(applied.nodes, applied.edges))
                      ELSE Throw
       IN  [ok       |-> strict.ok,
            raised   |-> ~applied.ok,
            err      |-> IF ~applied.ok THEN applied.err
                         ELSE IF strict.ok THEN "" ELSE ZodErrorMessage,
            nodes    |-> strict.nodes,
            edges    |-> strict.edges,
            docNodes |-> applied.docNodes,
            docEdges |-> applied.docEdges]
  ELSE LET strict == normalizeErd(GraphInput(ai.nodes, ai.edges))
       IN  [ok       |-> strict.ok,
            raised   |-> FALSE,
            err      |-> IF strict.ok THEN "" ELSE ZodErrorMessage,
            nodes    |-> strict.nodes,
            edges    |-> strict.edges,
            docNodes |-> existing.nodes,
            docEdges |-> existing.edges]

\* buildAssistantSummary(...): the text itself is not modelled.
AssistantSummary == <<"summary">>

ErrorContent(errMsg) == <<"There was an error: ", errMsg>>

\* The assistant message appended without the slice.
FinalChatUncut(workingChat, content) == Append(workingChat, Msg("assistant", content))

\* [...workingChat, {role: "assistant", content}].slice(-MAX_CHAT_HISTORY)
FinalChat(workingChat, content) ==
  SliceLast(Append(workingChat, Msg("assistant", content)), MAX_CHAT_HISTORY)

\* The previous chat without the user message.
WorkingChatNoUser(prevChat, prompt) == SliceLast(prevChat, MAX_CHAT_HISTORY)

\* [...prevChat, {role: "user", content: prompt.trim()}].slice(-MAX_CHAT_HISTORY)
WorkingChat(prevChat, prompt) ==
  SliceLast(Append(prevChat, Msg("user", <<TrimS(prompt)>>)), MAX_CHAT_HISTORY)

\* The error as the controller reports it: updateDiagramStream gets the error
\* rethrown by processAIGenerationResult, updateDiagram the original one.
ReportedError(ctl, err, thrownInProcessing) ==
  IF ctl = "updateDiagramStream" /\ thrownInProcessing
  THEN "Failed to process AI generation result"
  ELSE err

\* The write after a failed AI turn.  updateDiagram sets title, type, prompt,
\* model and chat; updateDiagramStream also sets nodes: [] and edges: [].
ErrorReportWrite(ctl, d, baseVersion, u, errMsg) ==
  IF ctl = "updateDiagramStream"
  THEN updateDiagramWithResults(d, baseVersion,
         [title |-> u.title, type |-> u.type, nodes |-> <<>>, edges |-> <<>>,
          prompt |-> u.prompt, model |-> u.model,
          chat |-> FinalChat(u.chat, ErrorContent(errMsg))])
  ELSE findOneAndUpdate(d, baseVersion,
         SetDoc(IF u.title \in {Undef, ""} THEN Undef ELSE TrimS(u.title),
                IF u.type \in {Undef, ""} THEN Undef ELSE u.type,
                TrimS(u.prompt), u.model, FALSE, <<>>, <<>>,
                TRUE, FinalChat(u.chat, ErrorContent(errMsg))))

\* The write after a successful AI turn, the same in both controllers.
ResultWrite(d, baseVersion, u, nodes, edges) ==
  updateDiagramWithResults(d, baseVersion,
    [title |-> u.title, type |-> u.type, nodes |-> nodes, edges |-> edges,
     prompt |-> u.prompt, model |-> u.model,
     chat |-> FinalChat(u.chat, AssistantSummary)])

(* ================= a batch of patch operations, end to end =============== *)
MaxOps == 2

TUsers == Nd("users", "databaseSchema", "origin", TRUE, "Users", <<FUsersId>>)

TPosts == Nd("posts", "databaseSchema", "origin", TRUE, "Posts", <<FPostsUser>>)

EPostsUsers ==
  Edg("e1", "posts", "users", <<"posts", "user_id", "right">>, <<"users", "id", "left">>,
      Undef, Undef, Undef)

FUsersEmail == <<"users", "email">>

\* Graphs as a commit stores them: outputs of normalizeErd.
StoredGraphs ==
  {normalizeErd(GraphInput(<<>>, <<>>)),
   normalizeErd(GraphInput(<<TUsers>>, <<>>)),
   normalizeErd(GraphInput(<<TUsers, TPosts>>, <<EPostsUsers>>))}

OpChoices ==
  {AddField("users", FUsersEmail, "email", "TEXT", "UNIQUE"),
   AddField("users", <<"users", "id">>, "id", "INT", "PRIMARY"),
   AddField("ghost", <<"ghost", "id">>, "id", "INT", Undef),
   AddField("posts", <<"posts", "title">>, "", "TEXT", Undef),
   AddField("members", <<"members", "bio">>, "bio", "TEXT", Undef),
   RenameTable("users", "members", Undef),
   RenameTable("users", "posts", "Posts"),
   RenameTable("posts", "articles", "Articles"),
   DeleteField("users", <<"users", "id">>),
   DeleteField("posts", <<"posts", "nope">>)}

OpsControllers == {"updateDiagram", "updateDiagramStream"}

\* The request's part of the $set of a patch turn: prompt "P", no title, no type.
OpsUpdates(d) ==
  [title |-> Undef, type |-> Undef, prompt |-> "P", model |-> d.model,
   chat |-> WorkingChat(d.chat, "P")]

\* A stored diagram after its first commit, read by a controller whose AI call
\* answered with a batch of operations.
OpsInit ==
  /\ \E g \in StoredGraphs :
       db = [createDiagram("T") EXCEPT !.nodes = g.nodes, !.edges = g.edges, !.version = 1]
  /\ oDoc = db
  /\ oOps \in SeqsUpTo(OpChoices, MaxOps)
  /\ oCtl \in OpsControllers
  /\ oRes = <<>>
  /\ oPc = "apply"
  /\ NormOff
  /\ AuxOff
  /\ req = [r \in Requests |-> IdleReq]
  /\ started = 0

\* processAIGenerationResult on the batch: oDoc is the object handed to
\* applyOpsInMemory, and holds afterwards what the call left in it.
OpsApply ==
  /\ oPc = "apply"
  /\ LET res == processAIGenerationResult(AiOps(oOps), oDoc)
     IN  /\ oRes' = res
         /\ oDoc' = [oDoc EXCEPT !.nodes = res.docNodes, !.edges = res.docEdges]
  /\ oPc' = "write"
  /\ UNCHANGED <<auxVars, oOps, oCtl, db, normVars, reqVars>>

\* The commit of the patched graph.
OpsCommit ==
  /\ oPc = "write"
  /\ oRes.ok
  /\ db' = ResultWrite(db, oDoc.version, OpsUpdates(oDoc), oRes.nodes, oRes.edges).doc
  /\ oPc' = "done"
  /\ UNCHANGED <<auxVars, oDoc, oOps, oRes, oCtl, normVars, reqVars>>

\* The error report after a batch that failed.
OpsReport ==
  /\ oPc = "write"
  /\ ~oRes.ok
  /\ db' = ErrorReportWrite(oCtl, db, oDoc.version, OpsUpdates(oDoc),
                            ReportedError(oCtl, oRes.err, TRUE)).doc
  /\ oPc' = "done"
  /\ UNCHANGED <<auxVars, oDoc, oOps, oRes, oCtl, normVars, reqVars>>

OpsNext == OpsApply \/ OpsCommit \/ OpsReport

SpecOps == OpsInit /\ [][OpsNext]_vars

(* ------------------ claim about a failing batch ------------------------- *)
NodeIds(nodes) == {nodes[i].id : i \in 1..Len(nodes)}

\* Operation i names a table that neither the document nor a rename before it has.
MissingTable(doc, ops, i) ==
  /\ ops[i].op \in {"add_field", "delete_field"}
  /\ ops[i].tableId \notin
       NodeIds(doc.nodes) \cup {ops[j].newId : j \in {k \in 1..(i - 1) : ops[k].op = "rename_table"}}

\* The first operation errors on the document as it was read.
FirstErrors(doc, ops) ==
  /\ Len(ops) >= 1
  /\ LET o == ops[1]
     IN  \/ MissingTable(doc, ops, 1)
         \/ o.op = "rename_table" /\ o.oldId \notin NodeIds(doc.nodes)
         \/ o.op = "rename_table" /\ o.newId \in NodeIds(doc.nodes)
         \/ /\ o.op = "add_field"
            /\ \E i \in 1..Len(doc.nodes) :
                 doc.nodes[i].id = o.tableId /\ HasField(doc.nodes[i].schema, o.id)
         \/ /\ o.op = "delete_field"
            /\ \E i \in 1..Len(doc.nodes) :
                 doc.nodes[i].id = o.tableId /\ ~HasField(doc.nodes[i].schema, o.fieldId)

HasErroringOp(doc, ops) ==
  FirstErrors(doc, ops) \/ \E i \in 1..Len(ops) : MissingTable(doc, ops, i)

\* C10: a batch with an erroring operation makes applyOpsInMemory raise; whenever
\* it raises, the document passed in still has the nodes and edges it was read
\* with, the turn yields no graph, and what the controller then stores holds no
\* product of the batch: nodes and edges are the stored ones, or the empty lists
\* of updateDiagramStream's error report.
C10_FailedBatchLeavesNoTrace ==
  oPc \in {"write", "done"} =>
    /\ HasErroringOp(oDoc, oOps) => oRes.raised
    /\ oRes.raised =>
         /\ ~oRes.ok /\ oRes.err # ""
         /\ oPc = "write" => (oDoc.nodes = db.nodes /\ oDoc.edges = db.edges)
         /\ oPc = "done" =>
              \/ db.nodes = oDoc.nodes /\ db.edges = oDoc.edges
              \/ db.nodes = <<>> /\ db.edges = <<>>

\* A batch whose second operation fails after the first one took effect, handled
\* to the end.
C10_Witness ==
  /\ oPc = "done"
  /\ Len(oOps) = 2
  /\ oOps[1] = AddField("users", FUsersEmail, "email", "TEXT", "UNIQUE")
  /\ oOps[2] = DeleteField("posts", <<"posts", "nope">>)
  /\ Len(oDoc.nodes) = 2
  /\ oRes.raised

(* ----------------------- claims about one op -------------------------- *)
\* The working state of applyOpsInMemory(doc, ops) after its first i operations.
StateAt(doc, ops, i) ==
  RunOps([objs |-> doc.nodes, map |-> MapFrom(doc.nodes, Len(doc.nodes)),
          edges |-> doc.edges, err |-> ""],
         SubSeq(ops, 1, i), 1)

\* The nodes applyOpsInMemory would return from a working state.
NodesOf(st) == [i \in 1..Len(st.map) |-> st.objs[st.map[i].o]]

\* Operation i of the batch is an operation of kind op that succeeded.
Succeeded(doc, ops, i, op) ==
  i \in 1..Len(ops) /\ ops[i].op = op /\ StateAt(doc, ops, i).err = ""

RenameHolds(before, after, oldId, newId) ==
  /\ \A k \in 1..Len(after.edges) :
       /\ after.edges[k].source # oldId /\ after.edges[k].target # oldId
       /\ after.edges[k].source =
            IF before.edges[k].source = oldId THEN newId ELSE before.edges[k].source
       /\ after.edges[k].target =
            IF before.edges[k].target = oldId THEN newId ELSE before.edges[k].target
  /\ Len(after.edges) = Len(before.edges)
  /\ \A k \in 1..Len(NodesOf(after)) : NodesOf(after)[k].id # oldId
  /\ MapHas(after.map, newId)
  /\ LET t == after.objs[MapGet(after.map, newId)]
         u == before.objs[MapGet(before.map, oldId)]
     IN  t.id = newId /\ t.schema = u.schema

\* C11: right after a rename_table(oldId, newId) that succeeded, at any place in
\* a batch, no edge has source or target oldId, the edges that named oldId name
\* newId, no node has id oldId and the renamed table has the fields it had; an
\* operation that follows reaches the table under newId.
C11_RenameRewritesEdges ==
  oPc \in {"write", "done"} =>
    \A i \in 1..Len(oOps) :
      Succeeded(oDoc, oOps, i, "rename_table") =>
        /\ RenameHolds(StateAt(oDoc, oOps, i - 1), StateAt(oDoc, oOps, i),
                       oOps[i].oldId, oOps[i].newId)
        /\ (i < Len(oOps) /\ oOps[i + 1].op = "add_field"
              /\ oOps[i + 1].tableId = oOps[i].newId
              /\ ~HasField(StateAt(oDoc, oOps, i).objs[
                     MapGet(StateAt(oDoc, oOps, i).map, oOps[i].newId)].schema, oOps[i + 1].id))
             => StateAt(oDoc, oOps, i + 1).err = ""

\* A rename of the table an edge points to, followed by an operation on the new id.
C11_Witness ==
  /\ oPc = "done"
  /\ Len(oDoc.edges) = 1
  /\ Len(oOps) = 2
  /\ oOps[1] = RenameTable("users", "members", Undef)
  /\ oOps[2] = AddField("members", <<"members", "bio">>, "bio", "TEXT", Undef)
  /\ oRes.ok
  /\ \E k \in 1..Len(oRes.edges) : oRes.edges[k].target = "members"

(* ======================= requests on the diagram ======================== *)
\* A request body; Undef, FALSE and NoHandle mark the keys it does not carry.
Body(title, hasNodes, nodes, hasEdges, edges, prompt, nodeId, fieldId, field, label) ==
  [title |-> title, type |-> Undef, hasNodes |-> hasNodes, nodes |-> nodes,
   hasEdges |-> hasEdges, edges |-> edges, prompt |-> prompt, model |-> Undef,
   nodeId |-> nodeId, fieldId |-> fieldId, field |-> field, label |-> label]

NoField == Fld(NoHandle, Undef, Undef, Undef, Undef)

UpdateBody(title, hasNodes, nodes, hasEdges, edges, prompt) ==
  Body(title, hasNodes, nodes, hasEdges, edges, prompt, Undef, NoHandle, NoField, Undef)

FieldBody(nodeId, fieldId, field, label) ==
  Body(Undef, FALSE, <<>>, FALSE, <<>>, Undef, nodeId, fieldId, field, label)

\* What findOne hands out: a document whose fields carry the schema defaults
\* (key "NONE", nullable true).
HydrateField(f) ==
  [f EXCEPT !.key = IF @ = Undef THEN "NONE" ELSE @,
            !.nullable = IF @ = Undef THEN "true" ELSE @]

HydrateNode(n) == [n EXCEPT !.schema = [i \in 1..Len(n.schema) |-> HydrateField(n.schema[i])]]

findOne(d) == [d EXCEPT !.nodes = [i \in 1..Len(d.nodes) |-> HydrateNode(d.nodes[i])]]

\* Field (API): id, title and type of length >= 1.
FieldAPIOk(f) == SegMin1(f.id) /\ StrMin1(f.title) /\ StrMin1(f.type)

FieldAPI(f) == [f EXCEPT !.id = TrimH(@), !.title = TrimS(@), !.type = TrimS(@)]

\* DiagramNodeAPI: the literal type, a position, data with a label and >= 1 field.
DiagramNodeAPIOk(n) ==
  /\ StrMin1(n.id)
  /\ n.type = "databaseSchema"
  /\ n.position # Undef
  /\ n.hasData
  /\ StrMin1(n.label)
  /\ Len(n.schema) >= 1
  /\ \A i \in 1..Len(n.schema) : FieldAPIOk(n.schema[i])

DiagramNodeAPI(n) ==
  [n EXCEPT !.id = TrimS(@), !.label = TrimS(@),
            !.schema = [i \in 1..Len(n.schema) |-> FieldAPI(n.schema[i])]]

\* DiagramEdgeAPI as a request schema: both markers are required.
DiagramEdgeAPIOk(e) ==
  /\ StrMin1(e.id) /\ StrMin1(e.source) /\ StrMin1(e.target)
  /\ e.type \in {Undef, "superCurvyEdge"}
  /\ e.markerStart \in MarkerStartEnum
  /\ e.markerEnd \in MarkerEndEnum

DiagramEdgeAPIOut(e) == [EdgeLoose(e) EXCEPT !.type = "superCurvyEdge"]

\* UpdateDiagramReq: something to update, and nodes and edges of the API shape.
UpdateDiagramReqOk(b) ==
  /\ \/ b.title \notin {Undef, ""}
     \/ b.prompt \notin {Undef, ""}
     \/ b.hasNodes
     \/ b.hasEdges
  /\ b.prompt # Undef => StrMin1(TrimS(b.prompt))
  /\ b.hasNodes => \A i \in 1..Len(b.nodes) : DiagramNodeAPIOk(b.nodes[i])
  /\ b.hasEdges => \A i \in 1..Len(b.edges) : DiagramEdgeAPIOk(b.edges[i])

UpdateDiagramReq(b) ==
  [b EXCEPT !.prompt = IF @ = Undef THEN @ ELSE TrimS(@),
            !.nodes = [i \in 1..Len(b.nodes) |-> DiagramNodeAPI(b.nodes[i])],
            !.edges = [i \in 1..Len(b.edges) |-> DiagramEdgeAPIOut(b.edges[i])]]

\* FieldCreateReq, FieldUpdateReq, FieldDeleteReq, NodeLabelUpdateReq.
FieldCreateReqOk(b) == StrMin1(b.nodeId) /\ FieldAPIOk(b.field)

FieldUpdateReqOk(b) ==
  /\ StrMin1(b.nodeId) /\ SegMin1(b.fieldId)
  /\ b.field # NoField
  /\ b.field.id # NoHandle => SegMin1(b.field.id)
  /\ b.field.title # Undef => StrMin1(b.field.title)
  /\ b.field.type # Undef => StrMin1(b.field.type)

FieldDeleteReqOk(b) == StrMin1(b.nodeId) /\ SegMin1(b.fieldId)

NodeLabelUpdateReqOk(b) == StrMin1(b.nodeId) /\ b.label # Undef /\ StrMin1(b.label)

(* ------------------ field and label handlers, in memory ----------------- *)
\* loadDiagramWithNode: the document read, and the place of the node in it.
loadDiagramWithNode(d, nodeId) ==
  IF ~d.exists THEN [error |-> "Diagram not found", diagram |-> d, at |-> 0]
  ELSE LET doc == findOne(d)
           hits == {i \in 1..Len(doc.nodes) : doc.nodes[i].id = nodeId}
       IN  IF hits = {} THEN [error |-> "Node not found", diagram |-> doc, at |-> 0]
           ELSE [error |-> "", diagram |-> doc,
                 at |-> CHOOSE i \in hits : \A j \in hits : i <= j]

\* What a handler leaves before diagram.save(): a response code when it returns
\* early, else the document to save; dirty tells that edges was assigned or an
\* edge was changed.
Early(code, doc) == [code |-> code, nodes |-> doc.nodes, edges |-> doc.edges, dirty |-> FALSE]

ToSave(nodes, edges, was) ==
  [code |-> "", nodes |-> nodes, edges |-> edges, dirty |-> edges # was]

IndexOfField(schema, fieldId) ==
  IF HasField(schema, fieldId)
  THEN CHOOSE i \in 1..Len(schema) :
         schema[i].id = fieldId /\ \A j \in 1..(i - 1) : schema[j].id # fieldId
  ELSE 0

\* addNodeField, from the loaded node to the save.
addNodeField(doc, at, field) ==
  LET schema == doc.nodes[at].schema
  IN  IF ~doc.nodes[at].hasData THEN Early("SERVER_ERROR", doc)
      ELSE IF HasField(schema, field.id) THEN Early("CONFLICT", doc)
      ELSE ToSave([doc.nodes EXCEPT ![at].schema =
                     Append(@, Fld(field.id, field.title, field.type,
                                   IF field.key = Undef THEN "NONE" ELSE field.key,
                                   IF field.nullable = Undef THEN "true" ELSE field.nullable))],
                  doc.edges, doc.edges)

\* updateNodeField: upsert when the field is not there, else rename and patch.
updateNodeField(doc, at, fieldId, patch) ==
  LET schema == doc.nodes[at].schema
      idx    == IndexOfField(schema, fieldId)
  IN  IF ~doc.nodes[at].hasData THEN Early("SERVER_ERROR", doc)
      ELSE IF idx = 0
      THEN LET newId == TrimH(IF patch.id = NoHandle THEN fieldId ELSE patch.id)
               title == IF patch.title = Undef THEN Undef ELSE TrimS(patch.title)
               type  == IF patch.type = Undef THEN Undef ELSE TrimS(patch.type)
           IN  IF ~Truthy(newId) \/ title \in {Undef, ""} \/ type \in {Undef, ""}
               THEN Early("VALIDATION_ERROR", doc)
               ELSE IF HasField(schema, newId) THEN Early("CONFLICT", doc)
               ELSE ToSave([doc.nodes EXCEPT ![at].schema =
                              Append(@, Fld(newId, title, type,
                                            IF patch.key = Undef THEN "NONE" ELSE patch.key,
                                            "true"))],
                           doc.edges, doc.edges)
      ELSE LET current == schema[idx]
               rename  == Truthy(patch.id) /\ patch.id # current.id
               patched == [current EXCEPT
                             !.title = IF patch.title # Undef THEN patch.title ELSE @,
                             !.type  = IF patch.type # Undef THEN patch.type ELSE @,
                             !.key   = IF patch.key # Undef THEN patch.key ELSE @,
                             !.id    = IF patch.id # NoHandle THEN patch.id ELSE @]
               edges   == IF rename
                          THEN rewriteHandlesForFieldRename(doc, current.id, patch.id).edges
                          ELSE doc.edges
           IN  IF rename /\ HasField(schema, patch.id) THEN Early("CONFLICT", doc)
               ELSE ToSave([doc.nodes EXCEPT ![at].schema[idx] = patched], edges, doc.edges)

\* deleteNodeField: the field goes, and with it the edges on its handles.
deleteNodeField(doc, at, fieldId) ==
  LET schema  == doc.nodes[at].schema
      Keep(f) == f.id # fieldId
      kept    == SelectSeq(schema, Keep)
  IN  IF ~doc.nodes[at].hasData THEN Early("SERVER_ERROR", doc)
      ELSE IF Len(kept) = Len(schema) THEN Early("NOT_FOUND", doc)
      ELSE ToSave([doc.nodes EXCEPT ![at].schema = kept],
                  removeEdgesTouchingField(doc, fieldId).edges, doc.edges)

\* updateNodeLabel: node.data.label = sanitizeInput(label).
updateNodeLabel(doc, at, label) ==
  IF ~doc.nodes[at].hasData THEN Early("SERVER_ERROR", doc)
  ELSE ToSave([doc.nodes EXCEPT ![at].label = TrimS(label)], doc.edges, doc.edges)

\* The document validation that save() runs (required strings after trimming,
\* the key and marker enums of the sub-schemas).
SaveValid(nodes, edges) ==
  /\ \A i \in 1..Len(nodes) :
       /\ TrimS(nodes[i].id) \notin {Undef, ""}
       /\ nodes[i].hasData =>
            /\ TrimS(nodes[i].label) \notin {Undef, ""}
            /\ \A j \in 1..Len(nodes[i].schema) :
                 LET f == nodes[i].schema[j]
                 IN  /\ Truthy(TrimH(f.id))
                     /\ TrimS(f.title) \notin {Undef, ""}
                     /\ TrimS(f.type) \notin {Undef, ""}
                     /\ f.key \in {"PK", "FK", "NONE"}
  /\ \A i \in 1..Len(edges) :
       /\ edges[i].markerStart \in MarkerStartEnum
       /\ edges[i].markerEnd \in MarkerEndEnum

(* ---------------------- inputs of the requests -------------------------- *)
MaxStarted == 3

AEmpty == Nd("users", "databaseSchema", "origin", TRUE, "Users", <<>>)

AEdge ==
  Edg("e1", "posts", "users", <<"posts", "user_id", "right">>, <<"users", "id", "left">>,
      Undef, "one-start", "many-end")

\* Bodies of PATCH /diagrams/:id: a graph, a graph the API schema turns down, a
\* prompt, a title.
UpdateBodies ==
  {UpdateBody(Undef, TRUE, <<TUsers, TPosts>>, TRUE, <<AEdge>>, Undef),
   UpdateBody(Undef, TRUE, <<AEmpty>>, FALSE, <<>>, Undef),
   UpdateBody(Undef, FALSE, <<>>, FALSE, <<>>, "P"),
   UpdateBody("T1", FALSE, <<>>, FALSE, <<>>, Undef)}

AddFieldBodies ==
  {FieldBody("users", NoHandle, Fld(FUsersEmail, "email", "TEXT", Undef, Undef), Undef)}

UpdateFieldBodies ==
  {FieldBody("users", <<"users", "id">>,
             Fld(<<"users", "uid">>, Undef, Undef, Undef, Undef), Undef)}

DeleteFieldBodies == {FieldBody("users", <<"users", "id">>, NoField, Undef)}

LabelBodies ==
  {FieldBody("users", NoHandle, NoField, "Members"),
   FieldBody("users", NoHandle, NoField, " ")}

\* What the provider call can end in.
AiAnswers ==
  {AiGraph(<<TUsers, TPosts>>, <<EPostsUsers>>),
   AiGraph(<<Nd("orders", "databaseSchema", "origin", TRUE, "Table", <<>>)>>, <<>>),
   AiOps(<<AddField("users", <<"users", "name">>, "name", "TEXT", Undef)>>),
   AiOps(<<AddField("users", <<"users", "name">>, "name", "TEXT", Undef),
           DeleteField("posts", <<"posts", "nope">>)>>),
   AiError("AI generation failed"),
   AiError("429 quota exceeded")}

\* errMsg.includes("429") || /quota/i.test(errMsg)
IsQuotaError(errMsg) == errMsg = "429 quota exceeded"

(* --------------------------- request steps ------------------------------ *)
Answered(rq, code, wrote) == [rq EXCEPT !.pc = "done", !.resp = code, !.wrote = wrote]

\* The AI requests in flight that have read the diagram and not yet written.
MarkEdited(reqs, r) ==
  [q \in Requests |->
     IF q # r /\ reqs[q].path = "ai" /\ reqs[q].pc \in {"ai", "write"}
     THEN [reqs[q] EXCEPT !.edited = TRUE]
     ELSE reqs[q]]

CanStart(r) == req[r].pc = "idle" /\ started < MaxStarted

\* The truthy title of the body, trimmed, or Undef.
TitleUpdate(b) == IF b.title \in {Undef, ""} \/ TrimS(b.title) = "" THEN Undef ELSE TrimS(b.title)

\* model || existing.model || DEFAULT_MODEL
ChosenModel(b, existing) ==
  IF b.model \notin {Undef, ""} THEN b.model
  ELSE IF existing.model \notin {Undef, ""} THEN existing.model
  ELSE DEFAULT_MODEL

\* POST /diagrams: createDiagram.
Create ==
  /\ ~db.exists
  /\ db' = createDiagram("T0")
  /\ UNCHANGED <<auxVars, normVars, opsVars, reqVars>>

\* updateDiagram up to its first write or to the call of the provider.
UpdateDiagramBegin(r) ==
  /\ CanStart(r)
  /\ \E raw \in UpdateBodies :
       LET rq       == [IdleReq EXCEPT !.kind = "updateDiagram", !.body = raw]
           b        == UpdateDiagramReq(raw)
           existing == findOne(db)
           strict   == normalizeErd(GraphInput(IF b.hasNodes THEN b.nodes ELSE existing.nodes,
                                               IF b.hasEdges THEN b.edges ELSE existing.edges))
           read     == [rq EXCEPT !.body = b, !.base = existing.version]
       IN  req' = [req EXCEPT ![r] =
             IF ~UpdateDiagramReqOk(raw) THEN Answered(rq, "VALIDATION_ERROR", "none")
             ELSE IF ~db.exists THEN Answered(rq, "NOT_FOUND", "none")
             ELSE IF b.hasNodes \/ b.hasEdges
             THEN IF strict.ok
                  THEN [read EXCEPT !.pc = "write", !.path = "manual",
                                    !.nodes = strict.nodes, !.edges = strict.edges]
                  ELSE Answered(read, "SERVER_ERROR", "none")
             ELSE IF b.prompt \notin {Undef, ""}
             THEN [read EXCEPT !.pc = "ai", !.path = "ai",
                               !.nodes = existing.nodes, !.edges = existing.edges,
                               !.model = ChosenModel(b, existing),
                               !.chat = WorkingChat(existing.chat, b.prompt)]
             ELSE IF TitleUpdate(b) = Undef /\ b.type = Undef /\ b.model = Undef
             THEN Answered(read, "OK", "none")
             ELSE [read EXCEPT !.pc = "write", !.path = "meta"]]
  /\ started' = started + 1
  /\ UNCHANGED <<auxVars, normVars, opsVars, db>>

\* updateDiagramStream up to the call of the provider; sse: the client asked
\* for server-sent events (wantsStreaming).
UpdateDiagramStreamBegin(r) ==
  /\ CanStart(r)
  /\ \E raw \in UpdateBodies, sse \in BOOLEAN :
       LET rq       == [IdleReq EXCEPT !.kind = "updateDiagramStream", !.body = raw]
           b        == UpdateDiagramReq(raw)
           existing == findOne(db)
           read     == [rq EXCEPT !.body = b, !.base = existing.version]
       IN  req' = [req EXCEPT ![r] =
             IF ~UpdateDiagramReqOk(raw) THEN Answered(rq, "VALIDATION_ERROR", "none")
             ELSE IF ~db.exists THEN Answered(rq, "NOT_FOUND", "none")
             ELSE IF b.hasNodes \/ b.hasEdges THEN Answered(read, "NOT_SUPPORTED", "none")
             ELSE IF b.prompt \notin {Undef, ""}
             THEN [read EXCEPT !.pc = "ai", !.path = "ai",
                               !.nodes = existing.nodes, !.edges = existing.edges,
                               !.model = ChosenModel(b, existing),
                               !.chat = WorkingChat(existing.chat, b.prompt),
                               !.sse = sse]
             ELSE Answered(read, "OK", "none")]
  /\ started' = started + 1
  /\ UNCHANGED <<auxVars, normVars, opsVars, db>>

\* The provider call of an AI request ends, and its answer is turned into the
\* graph to commit or into the error to report.
AiResolve(r) ==
  /\ req[r].pc = "ai"
  /\ \E ai \in AiAnswers :
       LET rq  == req[r]
           res == processAIGenerationResult(ai, [nodes |-> rq.nodes, edges |-> rq.edges])
       IN  req' = [req EXCEPT ![r] =
             IF ai.kind = "error"
             THEN [rq EXCEPT !.pc = "report", !.fail = ai.error]
             ELSE IF res.ok
             THEN [rq EXCEPT !.pc = "write", !.nodes = res.nodes, !.edges = res.edges]
             ELSE [rq EXCEPT !.pc = "report", !.nodes = res.docNodes, !.edges = res.docEdges,
                             !.fail = ReportedError(rq.kind, res.err, TRUE)]]
  /\ UNCHANGED <<auxVars, normVars, opsVars, db, started>>

\* The request's part of the $set of an AI write.
AiUpdates(rq) ==
  [title |-> rq.body.title, type |-> rq.body.type, prompt |-> rq.body.prompt,
   model |-> rq.model, chat |-> rq.chat]

\* After a write: the store, and the request answered.
Written(r, w, okCode, missCode, manual) ==
  /\ db' = w.doc
  /\ LET rq   == [req[r] EXCEPT !.saw = db.version]
         reqs == [req EXCEPT ![r] = IF w.found THEN Answered(rq, okCode, "applied")
                                    ELSE Answered(rq, missCode, "rejected")]
     IN  req' = IF manual /\ w.found THEN MarkEdited(reqs, r) ELSE reqs
  /\ UNCHANGED <<auxVars, normVars, opsVars, started>>

\* updateDiagram, manual path: the write of the normalized graph.
ManualWrite(r) ==
  /\ req[r].pc = "write" /\ req[r].path = "manual"
  /\ Written(r, findOneAndUpdate(db, req[r].base,
                  SetDoc(TitleUpdate(req[r].body), req[r].body.type, Undef, Undef,
                         TRUE, req[r].nodes, req[r].edges, FALSE, <<>>)),
             "OK", "CONFLICT", TRUE)

\* updateDiagram, metadata path.
MetaWrite(r) ==
  /\ req[r].pc = "write" /\ req[r].path = "meta"
  /\ Written(r, findOneAndUpdate(db, req[r].base,
                  SetDoc(TitleUpdate(req[r].body), req[r].body.type, Undef,
                         req[r].body.model, FALSE, <<>>, <<>>, FALSE, <<>>)),
             "OK", "CONFLICT", FALSE)

\* The commit of a successful AI turn, in either controller.
\* (With server-sent events the conflict is the event "Version conflict".)
AiCommit(r) ==
  /\ req[r].pc = "write" /\ req[r].path = "ai"
  /\ Written(r, ResultWrite(db, req[r].base, AiUpdates(req[r]), req[r].nodes, req[r].edges),
             "OK", "CONFLICT", FALSE)

\* The error report of a failed AI turn; its outcome is swallowed and the
\* response carries the AI failure.
AiReport(r) ==
  /\ req[r].pc = "report"
  /\ ~req[r].sse
  /\ LET code == IF IsQuotaError(req[r].fail) THEN "AI_QUOTA_EXCEEDED" ELSE "AI_FAILED"
     IN  Written(r, ErrorReportWrite(req[r].kind, db, req[r].base, AiUpdates(req[r]), req[r].fail),
                 code, code, FALSE)

\* updateDiagramStream answering with server-sent events: a failed generation
\* is sent as the event {type: "error", error} and the response ends; nothing
\* is written.
AiReportSSE(r) ==
  /\ req[r].pc = "report"
  /\ req[r].sse
  /\ req' = [req EXCEPT ![r] = Answered(req[r], "SSE_ERROR", "none")]
  /\ UNCHANGED <<auxVars, normVars, opsVars, db, started>>

\* A field or label handler from its start to diagram.save(); out is what the
\* handler leaves once the node is loaded.
FieldLoad(r, kind, b, valid, loaded, out) ==
  LET rq   == [IdleReq EXCEPT !.kind = kind, !.body = b]
      read == [rq EXCEPT !.rev = db.rev, !.base = db.version]
  IN  /\ req' = [req EXCEPT ![r] =
            IF ~valid THEN Answered(rq, "VALIDATION_ERROR", "none")
            ELSE IF loaded.error # "" THEN Answered(rq, "NOT_FOUND", "none")
            ELSE IF out.code # "" THEN Answered(read, out.code, "none")
            ELSE [read EXCEPT !.pc = "save", !.path = "field",
                              !.nodes = out.nodes, !.edges = out.edges, !.dirty = out.dirty]]
      /\ started' = started + 1
      /\ UNCHANGED <<auxVars, normVars, opsVars, db>>

AddNodeFieldLoad(r) ==
  /\ CanStart(r)
  /\ \E b \in AddFieldBodies :
       LET loaded == loadDiagramWithNode(db, b.nodeId)
           out    == IF loaded.error # "" THEN Early("NOT_FOUND", loaded.diagram)
                     ELSE addNodeField(loaded.diagram, loaded.at, FieldAPI(b.field))
       IN  FieldLoad(r, "addNodeField", b, FieldCreateReqOk(b), loaded, out)

UpdateNodeFieldLoad(r) ==
  /\ CanStart(r)
  /\ \E b \in UpdateFieldBodies :
       LET loaded == loadDiagramWithNode(db, b.nodeId)
           out    == IF loaded.error # "" THEN Early("NOT_FOUND", loaded.diagram)
                     ELSE updateNodeField(loaded.diagram, loaded.at, b.fieldId, b.field)
       IN  FieldLoad(r, "updateNodeField", b, FieldUpdateReqOk(b), loaded, out)

DeleteNodeFieldLoad(r) ==
  /\ CanStart(r)
  /\ \E b \in DeleteFieldBodies :
       LET loaded == loadDiagramWithNode(db, b.nodeId)
           out    == IF loaded.error # "" THEN Early("NOT_FOUND", loaded.diagram)
                     ELSE deleteNodeField(loaded.diagram, loaded.at, b.fieldId)
       IN  FieldLoad(r, "deleteNodeField", b, FieldDeleteReqOk(b), loaded, out)

UpdateNodeLabelLoad(r) ==
  /\ CanStart(r)
  /\ \E b \in LabelBodies :
       LET loaded == loadDiagramWithNode(db, b.nodeId)
           out    == IF loaded.error # "" THEN Early("NOT_FOUND", loaded.diagram)
                     ELSE updateNodeLabel(loaded.diagram, loaded.at, b.label)
       IN  FieldLoad(r, "updateNodeLabel", b, NodeLabelUpdateReqOk(b), loaded, out)

\* diagram.save() writes: nodes, marked modified, and edges when changed.  It
\* neither filters on version nor increments it; rev counts the saves.
SaveWrite(r) ==
  /\ req[r].pc = "save"
  /\ SaveValid(req[r].nodes, req[r].edges)
  /\ db' = [db EXCEPT !.nodes = req[r].nodes,
                      !.edges = IF req[r].dirty THEN req[r].edges ELSE @,
                      !.rev = @ + 1]
  /\ req' = MarkEdited([req EXCEPT ![r] = Answered([@ EXCEPT !.saw = db.version], "OK", "saved")], r)
  /\ UNCHANGED <<auxVars, normVars, opsVars, started>>

\* diagram.save() after another save of the same document: the library may
\* refuse the write with a version error on its revision key.
SaveVersionError(r) ==
  /\ req[r].pc = "save"
  /\ SaveValid(req[r].nodes, req[r].edges)
  /\ db.rev # req[r].rev
  /\ req' = [req EXCEPT ![r] = Answered(@, "SERVER_ERROR", "none")]
  /\ UNCHANGED <<auxVars, normVars, opsVars, db, started>>

\* diagram.save() of a document that fails validation throws; nothing is written.
SaveInvalid(r) ==
  /\ req[r].pc = "save"
  /\ ~SaveValid(req[r].nodes, req[r].edges)
  /\ req' = [req EXCEPT ![r] = Answered(@, "SERVER_ERROR", "none")]
  /\ UNCHANGED <<auxVars, normVars, opsVars, db, started>>

\* The response is out; the client may send its next request.
Respond(r) ==
  /\ req[r].pc = "done"
  /\ req' = [req EXCEPT ![r] = IdleReq]
  /\ UNCHANGED <<auxVars, normVars, opsVars, db, started>>

Init ==
  /\ db = NoDoc
  /\ req = [r \in Requests |-> IdleReq]
  /\ started = 0
  /\ NormOff
  /\ OpsOff
  /\ AuxOff

Next ==
  \/ Create
  \/ \E r \in Requests :
       \/ UpdateDiagramBegin(r)
       \/ UpdateDiagramStreamBegin(r)
       \/ AiResolve(r)
       \/ ManualWrite(r)
       \/ MetaWrite(r)
       \/ AiCommit(r)
       \/ AiReport(r)
       \/ AiReportSSE(r)
       \/ AddNodeFieldLoad(r)
       \/ UpdateNodeFieldLoad(r)
       \/ DeleteNodeFieldLoad(r)
       \/ UpdateNodeLabelLoad(r)
       \/ SaveWrite(r)
       \/ SaveVersionError(r)
       \/ SaveInvalid(r)
       \/ Respond(r)

Spec == Init /\ [][Next]_vars

(* ------------------ claims about the stored diagram --------------------- *)
\* Request r ends its version-conditioned write in this step.
WriteEnds(r) == req[r].pc \in {"write", "report"} /\ req'[r].pc = "done"

\* A request that has attempted the write of a graph or of metadata.
Attempted(rq) ==
  rq.pc = "done" /\ rq.path \in {"manual", "meta", "ai"} /\ rq.fail = ""
  /\ rq.wrote \in {"applied", "rejected"}

C1_Pairs ==
  \A p, q \in Requests :
    (p # q /\ Attempted(req[p]) /\ Attempted(req[q]) /\ req[p].base = req[q].base) =>
      /\ ~(req[p].wrote = "applied" /\ req[q].wrote = "applied")
      /\ (req[p].saw = req[p].base \/ req[q].saw = req[q].base) =>
           (req[p].wrote = "applied" \/ req[q].wrote = "applied")
      /\ req[p].wrote = "applied" =>
           (req[q].wrote = "rejected" /\ req[q].resp = "CONFLICT")

C1_Step ==
  \A r \in Requests :
    (WriteEnds(r) /\ req[r].fail = "") =>
      /\ req'[r].wrote = "applied" =>
           /\ db'.version = db.version + 1
           /\ req[r].path \in {"manual", "ai"} =>
                (db'.nodes = req[r].nodes /\ db'.edges = req[r].edges)
      /\ req'[r].wrote = "rejected" => (req'[r].resp = "CONFLICT" /\ db' = db)

C2_AiCommitAfterEditRejected ==
  [][\A r \in Requests :
       (req[r].pc = "write" /\ req[r].path = "ai" /\ req[r].edited /\ req'[r].pc = "done")
         => (req'[r].resp = "CONFLICT" /\ db' = db)]_vars

\* C3: the stored diagram changes only by a write that matched the version its
\* operation read, and that write raises version by 1.
C3_OnlyConditionalWrites ==
  [][(db.exists /\ db' # db) =>
       /\ db'.version = db.version + 1
       /\ \E r \in Requests :
            WriteEnds(r) /\ req[r].base = db.version /\ req'[r].wrote = "applied"]_vars

\* C4: in the step that answers a request with CONFLICT the stored diagram
\* (title, type, prompt, model, nodes, edges, chat, version) does not change.
C4_ConflictWritesNothing ==
  [][\A r \in Requests :
       (req[r].resp # "CONFLICT" /\ req'[r].resp = "CONFLICT") => db' = db]_vars

C4_Witness ==
  \E r \in Requests :
    /\ req[r].resp = "CONFLICT" /\ req[r].wrote = "rejected" /\ req[r].path = "ai"
    /\ req[r].nodes # db.nodes
    /\ req[r].saw # req[r].base

C6_StoredGraphStrict == db.exists => StrictGraph(db.nodes, db.edges)

(* --------------------------- the handle codec --------------------------- *)
MaxSegs == 3

\* Field ids: non-empty strings of up to MaxSegs hyphen-separated segments.
FieldIds ==
  {f \in SeqsUpTo({"users", "id", "left", "right", "LEFT"}, MaxSegs) : f # <<>>}

HandleInit ==
  /\ cIn \in [f : FieldIds, s : {"left", "right"}]
  /\ cOut = <<>>
  /\ cPc = "call"
  /\ store = <<>>
  /\ gen = <<>>
  /\ MainOff

\* stripSide(forceSide(f, s)), the two calls of one round trip.
HandleRoundTrip ==
  /\ cPc = "call"
  /\ cOut' = [forced |-> forceSide(cIn.f, cIn.s),
              stripped |-> stripSide(forceSide(cIn.f, cIn.s))]
  /\ cPc' = "returned"
  /\ UNCHANGED <<cIn, store, gen, normVars, opsVars, db, reqVars>>

SpecHandle == HandleInit /\ [][HandleRoundTrip]_vars

\* C13: for every non-empty field id f, also one that ends in -left or -right,
\* and every side s, stripSide(forceSide(f, s)) is f.
C13_HandleRoundTrip == cPc = "returned" => cOut.stripped = cIn.f

(* ---------------------------- the SQL compiler -------------------------- *)
\* A segment with white space in it (\s of the handle pattern).
HasSpace(seg) == seg \in {" ", "full name"}

\* handle.match(/^(.+?)-([^-\s]+)-(left|right)$/): the column is the segment
\* before the side and has no hyphen and no white space, the table is the
\* non-empty text before it.
parseHandle(h) ==
  IF /\ Len(h) >= 3
     /\ h[Len(h)] \in {"left", "right"}
     /\ h[Len(h) - 1] # "" /\ ~HasSpace(h[Len(h) - 1])
     /\ SubSeq(h, 1, Len(h) - 2) # <<"">>
  THEN [ok |-> TRUE, table |-> SubSeq(h, 1, Len(h) - 2), column |-> h[Len(h) - 1]]
  ELSE [ok |-> FALSE, table |-> <<>>, column |-> ""]

\* localeCompare on the table names and on the column titles of the model.
LabelCollation == << <<"order", "items">>, <<"posts">>, <<"users">> >>

TitleCollation == <<"created_at", "full name", "id", "user_id">>

Rank(k, order) == CHOOSE i \in 1..Len(order) : order[i] = k

\* [...arr].sort((a, b) => proj(a).localeCompare(proj(b))), a stable sort;
\* keys[i] is proj(arr[i]).
sortBy(arr, keys, order) ==
  LET n == Len(arr)
      pos(i) == 1 + Cardinality({j \in 1..n :
                       \/ Rank(keys[j], order) < Rank(keys[i], order)
                       \/ Rank(keys[j], order) = Rank(keys[i], order) /\ j < i})
  IN  [p \in 1..n |-> arr[CHOOSE i \in 1..n : pos(i) = p]]

TablesHas(tables, name) == \E i \in 1..Len(tables) : tables[i].name = name

TablesIdx(tables, name) == CHOOSE i \in 1..Len(tables) : tables[i].name = name

\* tables.get(t)?.cols.find((x) => x.name === c); <<>> stands for undefined.
getCol(tables, t, c) ==
  IF ~TablesHas(tables, t) THEN <<>>
  ELSE LET cols == tables[TablesIdx(tables, t)].cols
           hits == {i \in 1..Len(cols) : cols[i].name = c}
       IN  IF hits = {} THEN <<>> ELSE cols[CHOOSE i \in hits : \A j \in hits : i <= j]

\* The columns one node adds to its table (c.type || "TEXT").
ColsOf(n) ==
  LET sorted == sortBy(n.schema, [i \in 1..Len(n.schema) |-> n.schema[i].title], TitleCollation)
  IN  [i \in 1..Len(sorted) |->
         [name |-> TrimS(sorted[i].title),
          type |-> IF sorted[i].type \in {Undef, ""} THEN "TEXT" ELSE sorted[i].type,
          pk |-> sorted[i].key = "PK",
          fk |-> sorted[i].key = "FK"]]

\* 1) collect tables, nodes[i..] into the map.
RECURSIVE CollectTables(_, _, _)
CollectTables(nodes, i, tables) ==
  IF i > Len(nodes) THEN tables
  ELSE LET tableName == TrimH(nodes[i].label)
           old  == IF TablesHas(tables, tableName)
                   THEN tables[TablesIdx(tables, tableName)]
                   ELSE [name |-> tableName, cols |-> <<>>, pks |-> <<>>, fks |-> <<>>]
           cols == ColsOf(nodes[i])
           t    == [old EXCEPT
                      !.cols = @ \o cols,
                      !.pks = @ \o [k \in 1..Len(SelectSeq(cols, LAMBDA c : c.pk)) |->
                                      SelectSeq(cols, LAMBDA c : c.pk)[k].name]]
       IN  CollectTables(nodes, i + 1,
             IF TablesHas(tables, tableName)
             THEN [tables EXCEPT ![TablesIdx(tables, tableName)] = t]
             ELSE Append(tables, t))

\* The child is always the target.
childIsTarget(A, B, aIsFK, bIsFK) == B

\* let child = B; if (aIsFK && !bIsFK) child = A; if (bIsFK && !aIsFK) child = B.
childOf(A, B, aIsFK, bIsFK) == IF aIsFK /\ ~bIsFK THEN A ELSE B

\* 2) infer FKs from edges[i..].
RECURSIVE InferFks(_, _, _)
InferFks(edges, i, tables) ==
  IF i > Len(edges) THEN tables
  ELSE LET A == parseHandle(edges[i].sourceHandle)
           B == parseHandle(edges[i].targetHandle)
       IN  IF ~A.ok \/ ~B.ok THEN InferFks(edges, i + 1, tables)
           ELSE LET colA  == getCol(tables, A.table, A.column)
                    colB  == getCol(tables, B.table, B.column)
                    aIsFK == colA # <<>> /\ colA.fk
                    bIsFK == colB # <<>> /\ colB.fk
                    child  == childOf(A, B, aIsFK, bIsFK)
                    parent == IF aIsFK /\ ~bIsFK THEN B ELSE A
                IN  IF \/ ~TablesHas(tables, child.table) \/ ~TablesHas(tables, parent.table)
                       \/ colA = <<>> \/ colB = <<>>
                    THEN InferFks(edges, i + 1, tables)
                    ELSE InferFks(edges, i + 1,
                           [tables EXCEPT ![TablesIdx(tables, child.table)].fks =
                              Append(@, [col |-> child.column, refTable |-> parent.table,
                                         refCol |-> parent.column,
                                         name |-> <<"fk", child.table, child.column, "to",
                                                    parent.table, parent.column>>])])

\* 3) the statements of one table: CREATE TABLE, then the indexes and an
\* empty line.  The renderer's quoting and type names are kept as the names.
TableSql(tbl, cfg) ==
  LET inlineSqlitePk == cfg.dialect = "sqlite" /\ Len(tbl.pks) = 1 /\ cfg.addIdentity
      colDef(c) == [name |-> c.name, type |-> c.type,
                    identity |-> cfg.addIdentity /\ c.pk,
                    notNull |-> cfg.addNotNull /\ (c.pk \/ c.fk) /\ ~(inlineSqlitePk /\ c.pk),
                    defaultNow |-> cfg.addTimestampsDefault
                                     /\ c.name \in {"created_at", "updated_at"}]
      schema == IF cfg.schema # "" /\ cfg.supportsSchema THEN cfg.schema ELSE ""
      create == [stmt |-> "CREATE TABLE", schema |-> schema, table |-> tbl.name,
                 cols |-> [i \in 1..Len(tbl.cols) |-> colDef(tbl.cols[i])],
                 primaryKey |-> IF inlineSqlitePk THEN <<>> ELSE tbl.pks,
                 foreignKeys |-> tbl.fks]
      indexes == [i \in 1..Len(tbl.fks) |->
                    [stmt |-> "CREATE INDEX", schema |-> schema, table |-> tbl.name, col |-> tbl.fks[i].col,
                     name |-> <<tbl.name, tbl.fks[i].col, "idx">>]]
  IN  <<create, [stmt |-> ""]>>
        \o (IF cfg.addFkIndexes THEN indexes \o <<[stmt |-> ""]>> ELSE <<>>)

RECURSIVE EmitTables(_, _, _)
EmitTables(sorted, i, cfg) ==
  IF i > Len(sorted) THEN <<>>
  ELSE TableSql(sorted[i], cfg) \o EmitTables(sorted, i + 1, cfg)

\* cfg is the options over their defaults; the result is the list of
\* statements that out.join("\n") renders.
erdToSql(erd, cfg) ==
  LET collected == CollectTables(
                     sortBy(erd.nodes, [i \in 1..Len(erd.nodes) |-> erd.nodes[i].label],
                            LabelCollation), 1, <<>>)
      tables    == InferFks(erd.edges, 1, collected)
      useSchema == cfg.schema # "" /\ cfg.supportsSchema
      sorted    == sortBy(tables, [i \in 1..Len(tables) |-> tables[i].name], LabelCollation)
  IN  (IF useSchema THEN <<[stmt |-> "CREATE SCHEMA", schema |-> cfg.schema], [stmt |-> ""]>>
       ELSE <<>>)
        \o EmitTables(sorted, 1, cfg)

MaxSqlEdges == 2

SqlField(title, type, key) == [title |-> title, type |-> type, key |-> key]

SqlNode(label, schema) == [label |-> label, schema |-> schema]

\* posts, users and order-items; users.id and posts.user_id are flagged FK or not.
SqlNodeChoices ==
  {<<SqlNode(<<"posts">>, <<SqlField("user_id", "INT", kP), SqlField("id", "INT", "PK"),
                            SqlField("created_at", Undef, "")>>),
     SqlNode(<<"users">>, <<SqlField("id", "INT", kU), SqlField("full name", "TEXT", "")>>),
     SqlNode(<<"order", "items">>, <<SqlField("id", "INT", "PK")>>)>> :
     kP \in {"FK", ""}, kU \in {"PK", "FK"}}

SqlEdgeChoices ==
  [sourceHandle : {<<"users", "id", "right">>, <<"posts", "user_id", "right">>,
                   <<"users", "nope", "right">>, NoHandle},
   targetHandle : {<<"posts", "user_id", "left">>, <<"users", "id", "left">>,
                   <<"order", "items", "id", "left">>, <<"ghost", "id", "left">>,
                   <<"users", "id">>}]

SqlCfgs ==
  {[dialect |-> d.id, supportsSchema |-> d.supportsSchema, schema |-> d.schema,
    addNotNull |-> TRUE, addFkIndexes |-> ix, addTimestampsDefault |-> TRUE,
    addIdentity |-> TRUE] :
     d \in {[id |-> "postgres", supportsSchema |-> TRUE, schema |-> "app"],
            [id |-> "sqlite", supportsSchema |-> FALSE, schema |-> ""]},
     ix \in BOOLEAN}

SqlInit ==
  /\ cIn \in [erd : [nodes : SqlNodeChoices, edges : SeqsUpTo(SqlEdgeChoices, MaxSqlEdges)],
              cfg : SqlCfgs]
  /\ cOut = <<>>
  /\ cPc = "call"
  /\ store = <<>>
  /\ gen = <<>>
  /\ MainOff

\* One call erdToSql(erd, opts).
SqlCall ==
  /\ cPc = "call"
  /\ cOut' = erdToSql(cIn.erd, cIn.cfg)
  /\ cPc' = "returned"
  /\ UNCHANGED <<cIn, store, gen, normVars, opsVars, db, reqVars>>

SpecSql == SqlInit /\ [][SqlCall]_vars

\* The table/column pairs of the graph, and whether the column is flagged FK.
Columns(erd) ==
  {[table |-> erd.nodes[n].label, column |-> erd.nodes[n].schema[f].title,
    fk |-> erd.nodes[n].schema[f].key = "FK"] :
     <<n, f>> \in {p \in (1..Len(erd.nodes)) \X (1..3) : p[2] <= Len(erd.nodes[p[1]].schema)}}

\* The columns a handle <table>-<column>-<side> resolves to.
ResolvesTo(erd, h) ==
  {c \in Columns(erd) : \E side \in {"left", "right"} : h = c.table \o <<c.column, side>>}

Resolvable(erd, e) ==
  ResolvesTo(erd, e.sourceHandle) # {} /\ ResolvesTo(erd, e.targetHandle) # {}

\* The constraint the claim expects for a resolvable edge.
ExpectedFk(erd, e) ==
  LET src == CHOOSE c \in ResolvesTo(erd, e.sourceHandle) : TRUE
      tgt == CHOOSE c \in ResolvesTo(erd, e.targetHandle) : TRUE
      child  == IF src.fk /\ ~tgt.fk THEN src ELSE tgt
      parent == IF src.fk /\ ~tgt.fk THEN tgt ELSE src
  IN  [table |-> child.table, col |-> child.column,
       refTable |-> parent.table, refCol |-> parent.column]

\* The FOREIGN KEY constraints of the output, by position.
EmittedFks(out) ==
  {p \in (1..Len(out)) \X (1..MaxSqlEdges + 1) :
     out[p[1]].stmt = "CREATE TABLE" /\ p[2] <= Len(out[p[1]].foreignKeys)}

FkAt(out, p) ==
  LET fk == out[p[1]].foreignKeys[p[2]]
  IN  [table |-> out[p[1]].table, col |-> fk.col,
       refTable |-> fk.refTable, refCol |-> fk.refCol]

\* C14: every edge whose two handles resolve to table/column pairs of the graph
\* gets exactly one FOREIGN KEY constraint, on the endpoint flagged FK when
\* exactly one is flagged and on the target otherwise, referencing the other
\* endpoint; no other constraint is emitted; with addFkIndexes each constraint
\* has one CREATE INDEX on its child column, and without it there is none.
C14_OneForeignKeyPerEdge ==
  cPc = "returned" =>
    LET erd  == cIn.erd
        good == {i \in 1..Len(erd.edges) : Resolvable(erd, erd.edges[i])}
        fks  == EmittedFks(cOut)
        idx  == {k \in 1..Len(cOut) : cOut[k].stmt = "CREATE INDEX"}
        want == {ExpectedFk(erd, erd.edges[i]) : i \in good}
    IN  /\ Cardinality(fks) = Cardinality(good)
        /\ \A w \in want :
             /\ Cardinality({p \in fks : FkAt(cOut, p) = w})
                  = Cardinality({i \in good : ExpectedFk(erd, erd.edges[i]) = w})
             /\ cIn.cfg.addFkIndexes =>
                  Cardinality({k \in idx : cOut[k].table = w.table /\ cOut[k].col = w.col})
                    = Cardinality({i \in good :
                                     /\ ExpectedFk(erd, erd.edges[i]).table = w.table
                                     /\ ExpectedFk(erd, erd.edges[i]).col = w.col})
        /\ Cardinality(idx) = IF cIn.cfg.addFkIndexes THEN Cardinality(good) ELSE 0

\* users{id PK} and posts{id PK, user_id FK} joined by users-id-right to
\* posts-user_id-left, with addFkIndexes.
C14_Witness ==
  /\ cPc = "returned"
  /\ cIn.cfg.addFkIndexes
  /\ cIn.erd.nodes[1].schema[1].key = "FK"
  /\ cIn.erd.nodes[2].schema[1].key = "PK"
  /\ cIn.erd.edges = <<[sourceHandle |-> <<"users", "id", "right">>,
                        targetHandle |-> <<"posts", "user_id", "left">>]>>
  /\ \E k \in 1..Len(cOut) :
       /\ cOut[k].stmt = "CREATE TABLE"
       /\ cOut[k].table = <<"posts">>
       /\ Len(cOut[k].foreignKeys) = 1
       /\ cOut[k].foreignKeys[1].col = "user_id"
       /\ cOut[k].foreignKeys[1].refTable = <<"users">>
       /\ cOut[k].foreignKeys[1].refCol = "id"
  /\ \E k \in 1..Len(cOut) :
       cOut[k].stmt = "CREATE INDEX" /\ cOut[k].table = <<"posts">> /\ cOut[k].col = "user_id"

(* ------------------------ the owner of a diagram ------------------------ *)
MaxDiagrams == 3

GUEST_DIAGRAM_LIMIT == 4

FREE_PLAN_DIAGRAM_LIMIT == 10

\* The users (with their plan) and the anonymous ids of the guests.
Plans == [u1 |-> "free", u2 |-> "pro"]

Identities == [user : {Undef, "u1", "u2"}, aid : {Undef, "a1", "a2"}]

\* !!this.userId, !!this.ownerAnonId: null and undefined are not set.
IsSet(v) == v \notin {"null", Undef}

\* DiagramSchema.pre("validate").
OwnerValid(d) ==
  (IsSet(d.userId) \/ IsSet(d.ownerAnonId)) /\ ~(IsSet(d.userId) /\ IsSet(d.ownerAnonId))

\* getOwnerFilter(req): the user when signed in, else the anonymous id, else
\* it throws MISSING_AID.
getOwnerFilter(idn) ==
  IF idn.user # Undef THEN [ok |-> TRUE, field |-> "userId", value |-> idn.user]
  ELSE IF idn.aid # Undef THEN [ok |-> TRUE, field |-> "ownerAnonId", value |-> idn.aid]
  ELSE [ok |-> FALSE, field |-> "", value |-> Undef]

Owns(owner, d) ==
  IF owner.field = "userId" THEN d.userId = owner.value ELSE d.ownerAnonId = owner.value

countDocuments(field, value) ==
  Cardinality({i \in 1..Len(store) :
                 IF field = "userId" THEN store[i].userId = value
                 ELSE store[i].ownerAnonId = value})

validateDiagramLimits(idn) ==
  IF ~getOwnerFilter(idn).ok THEN FALSE
  ELSE IF idn.user = Undef THEN countDocuments("ownerAnonId", idn.aid) < GUEST_DIAGRAM_LIMIT
  ELSE IF Plans[idn.user] = "free"
       THEN countDocuments("userId", idn.user) < FREE_PLAN_DIAGRAM_LIMIT
  ELSE TRUE

\* DiagramModel.create({...owner, title, ...}): the field the filter does not
\* name takes the schema default null; create validates the document.
OwnerCreate ==
  \E idn \in Identities, title \in {"T", "T2"} :
    LET owner == getOwnerFilter(idn)
        doc   == [userId |-> IF owner.field = "userId" THEN owner.value ELSE "null",
                  ownerAnonId |-> IF owner.field = "ownerAnonId" THEN owner.value ELSE "null",
                  title |-> title]
    IN  /\ Len(store) < MaxDiagrams
        /\ validateDiagramLimits(idn)
        /\ OwnerValid(doc)
        /\ store' = Append(store, doc)
        /\ UNCHANGED <<callVars, gen, normVars, opsVars, db, reqVars>>

\* updateDiagram: findOneAndUpdate({_id, ...owner}, {$set: {title}}).
OwnerUpdate ==
  \E idn \in Identities, i \in 1..Len(store), title \in {"T", "T2"} :
    /\ getOwnerFilter(idn).ok
    /\ Owns(getOwnerFilter(idn), store[i])
    /\ store[i].title # title
    /\ store' = [store EXCEPT ![i].title = title]
    /\ UNCHANGED <<callVars, gen, normVars, opsVars, db, reqVars>>

\* { $set: { userId }, $unset: { ownerAnonId: "" } } without the $unset.
mergeSetOnly(d, userId) == [d EXCEPT !.userId = userId]

\* { $set: { userId }, $unset: { ownerAnonId: "" } }.
mergeUpdate(d, userId) == [d EXCEPT !.userId = userId, !.ownerAnonId = Undef]

\* mergeGuestDiagramsToUser(aid, userId, plan), called at sign-in when the
\* request has an anonymous id; updateMany in one transaction.
OwnerMerge ==
  \E aid \in {"a1", "a2"}, userId \in DOMAIN Plans :
    /\ ~(Plans[userId] = "free" /\ countDocuments("userId", userId) >= 10)
    /\ \E i \in 1..Len(store) : store[i].ownerAnonId = aid
    /\ store' = [i \in 1..Len(store) |->
                   IF store[i].ownerAnonId = aid THEN mergeUpdate(store[i], userId)
                   ELSE store[i]]
    /\ UNCHANGED <<callVars, gen, normVars, opsVars, db, reqVars>>

\* deleteDiagram: deleteOne({_id, ...owner}).
OwnerDelete ==
  \E idn \in Identities, i \in 1..Len(store) :
    /\ getOwnerFilter(idn).ok
    /\ Owns(getOwnerFilter(idn), store[i])
    /\ store' = SubSeq(store, 1, i - 1) \o SubSeq(store, i + 1, Len(store))
    /\ UNCHANGED <<callVars, gen, normVars, opsVars, db, reqVars>>

OwnerInit == store = <<>> /\ gen = <<>> /\ CallOff /\ MainOff

OwnerNext == OwnerCreate \/ OwnerUpdate \/ OwnerMerge \/ OwnerDelete

SpecOwner == OwnerInit /\ [][OwnerNext]_vars

\* C15: every stored diagram has exactly one of userId and ownerAnonId set.
C15_ExactlyOneOwner ==
  \A i \in 1..Len(store) :
    /\ IsSet(store[i].userId) \/ IsSet(store[i].ownerAnonId)
    /\ ~(IsSet(store[i].userId) /\ IsSet(store[i].ownerAnonId))

\* A guest's diagram after the merge into a user, next to a guest's diagram.
C15_Witness ==
  /\ Len(store) = 2
  /\ store[1].userId = "u1" /\ store[1].ownerAnonId = Undef
  /\ store[2].ownerAnonId = "a2" /\ store[2].userId = "null"

(* ------------------------ one AI generation call ------------------------ *)
\* withRetry's default attempts.
attempts == 3

\* The status of a failed model call; 0 stands for an error without status.
Statuses == {0, 400, 429, 503}

\* status === 429 || (typeof status === "number" && status >= 500 && status < 600)
Retriable(status) == status = 429 \/ (status >= 500 /\ status < 600)

\* No generation call has been made.
GenIdle ==
  [mode |-> "", outer |-> "off", inner |-> "off", o |-> 0, i |-> 0, calls |-> 0,
   innerTimer |-> "off", outerTimer |-> "off", result |-> "pending", status |-> 0,
   error |-> "", resp |-> ""]

\* The message of the error a call rejects with: the one of withTimeout, or the
\* provider's, which names the status 429.
ErrorOf(out, status) ==
  IF out = "ok" THEN ""
  ELSE IF out = "timeout" THEN "AI request timed out"
  ELSE IF status = 429 THEN "429 quota exceeded"
  ELSE "AI generation failed"

\* errMsg.includes("429") || /quota/i.test(errMsg) ? "AI_QUOTA_EXCEEDED" : "AI_FAILED"
AiErrorCode(errMsg) == IF IsQuotaError(errMsg) THEN "AI_QUOTA_EXCEEDED" ELSE "AI_FAILED"

\* The promise of the whole call settles, unless it has settled before; the
\* finally of withTimeout clears its timer.
Settle(g, out) ==
  [g EXCEPT !.result = IF @ = "pending" THEN out ELSE @,
            !.error = IF g.result = "pending" THEN ErrorOf(out, g.status) ELSE @,
            !.outerTimer = IF @ = "armed" THEN "cleared" ELSE @,
            !.outer = "ended"]

\* provider.generate settles with out (ok, failure, timeout) and the status of
\* its error.  hedgedGenerate runs it inside its own withRetry and withTimeout;
\* generateStream yields its result or its error as the complete chunk.
ProviderSettled(g, out, st) ==
  IF g.mode = "hedgedGenerate" /\ out # "ok" /\ Retriable(st) /\ g.o < attempts - 1
  THEN [g EXCEPT !.outer = "sleeping"]
  ELSE Settle(g, out)

\* The call without the timers of withTimeout.
GenStartNoTimer ==
  /\ gen.outer = "off"
  /\ \E mode \in {"hedgedGenerate", "generateStream"} :
       gen' = [GenIdle EXCEPT !.mode = mode, !.outer = "awaiting", !.inner = "calling",
                              !.calls = 1]
  /\ UNCHANGED <<callVars, store, normVars, opsVars, db, reqVars>>

\* hedgedGenerate(prompt, model) or provider.generateStream(prompt, model) is
\* called: provider.generate starts its first model call and its timer;
\* hedgedGenerate arms its own timer around it.
GenStart ==
  /\ gen.outer = "off"
  /\ \E mode \in {"hedgedGenerate", "generateStream"} :
       gen' = [GenIdle EXCEPT !.mode = mode, !.outer = "awaiting", !.inner = "calling",
                              !.calls = 1, !.innerTimer = "armed",
                              !.outerTimer = IF mode = "hedgedGenerate" THEN "armed" ELSE "off"]
  /\ UNCHANGED <<callVars, store, normVars, opsVars, db, reqVars>>

\* The model call in flight answers: the withRetry of provider.generate returns.
ModelOk ==
  /\ gen.inner = "calling"
  /\ gen' = IF gen.innerTimer = "armed"
            THEN ProviderSettled([gen EXCEPT !.inner = "ended", !.innerTimer = "cleared"], "ok", 0)
            ELSE [gen EXCEPT !.inner = "ended"]
  /\ UNCHANGED <<callVars, store, normVars, opsVars, db, reqVars>>

\* The model call in flight fails: the withRetry of provider.generate sleeps
\* before another attempt, or throws the error.
ModelFail ==
  /\ gen.inner = "calling"
  /\ \E st \in Statuses :
       gen' = IF Retriable(st) /\ gen.i < attempts - 1
              THEN [gen EXCEPT !.inner = "sleeping", !.status = st]
              ELSE IF gen.innerTimer = "armed"
              THEN ProviderSettled([gen EXCEPT !.inner = "ended", !.status = st,
                                               !.innerTimer = "cleared"], "failure", st)
              ELSE [gen EXCEPT !.inner = "ended", !.status = st]
  /\ UNCHANGED <<callVars, store, normVars, opsVars, db, reqVars>>

\* The backoff of provider.generate ends: the next model call.
InnerWake ==
  /\ gen.inner = "sleeping"
  /\ gen' = [gen EXCEPT !.inner = "calling", !.i = @ + 1, !.calls = @ + 1]
  /\ UNCHANGED <<callVars, store, normVars, opsVars, db, reqVars>>

\* The backoff of hedgedGenerate ends: it calls provider.generate again.
OuterWake ==
  /\ gen.outer = "sleeping"
  /\ gen' = [gen EXCEPT !.outer = "awaiting", !.o = @ + 1, !.inner = "calling", !.i = 0,
                        !.calls = @ + 1, !.innerTimer = "armed"]
  /\ UNCHANGED <<callVars, store, normVars, opsVars, db, reqVars>>

\* The timer of provider.generate fires: it rejects with "AI request timed out",
\* an error without status; its withRetry goes on behind it.
InnerTimeout ==
  /\ gen.innerTimer = "armed"
  /\ gen' = ProviderSettled([gen EXCEPT !.innerTimer = "fired"], "timeout", 0)
  /\ UNCHANGED <<callVars, store, normVars, opsVars, db, reqVars>>

\* The timer of hedgedGenerate fires.
OuterTimeout ==
  /\ gen.outerTimer = "armed"
  /\ gen' = [gen EXCEPT !.outerTimer = "fired", !.result = "timeout",
                        !.error = ErrorOf("timeout", 0)]
  /\ UNCHANGED <<callVars, store, normVars, opsVars, db, reqVars>>

\* The request that awaits the call goes on to its response: OK, or the code
\* of the failure.
GenRespond ==
  /\ gen.result # "pending"
  /\ gen.resp = ""
  /\ gen' = [gen EXCEPT !.resp = IF gen.result = "ok" THEN "OK" ELSE AiErrorCode(gen.error)]
  /\ UNCHANGED <<callVars, store, normVars, opsVars, db, reqVars>>

GenInit == gen = GenIdle /\ store = <<>> /\ CallOff /\ MainOff

GenNext ==
  \/ GenStart
  \/ ModelOk
  \/ ModelFail
  \/ InnerWake
  \/ OuterWake
  \/ InnerTimeout
  \/ OuterTimeout
  \/ GenRespond

SpecGen == GenInit /\ [][GenNext]_vars

\* Timers fire and the event loop runs what is ready; the provider need not
\* answer.
SpecGenFair ==
  /\ SpecGen
  /\ WF_vars(InnerWake) /\ WF_vars(OuterWake)
  /\ WF_vars(InnerTimeout) /\ WF_vars(OuterTimeout)
  /\ WF_vars(GenRespond)

\* C19: for one request through hedgedGenerate the model call is attempted at
\* most 3 times; an attempt after the first follows a failure with status 429
\* or 5xx, and any other failure ends the attempts.
C19_AtMostThreeAttempts ==
  /\ [](gen.mode = "hedgedGenerate" => gen.calls <= 3)
  /\ [][(gen.mode = "hedgedGenerate" /\ gen'.calls > gen.calls) =>
          (gen'.calls = gen.calls + 1 /\ Retriable(gen.status))]_vars

C21_FailureCodes ==
  (gen.resp # "" /\ gen.result # "ok") =>
    gen.resp = IF gen.result = "timeout" THEN "AI_TIMEOUT"
               ELSE IF gen.status = 429 THEN "AI_QUOTA_EXCEEDED"
               ELSE "AI_FAILED"

(* ------------------ one AI answer, processed and stored ----------------- *)
\* What the provider may have sent next to an ops array.
DecoyNodes == <<Nd("orders", "databaseSchema", "origin", TRUE, "Orders", <<>>)>>

\* Answers of the provider: a batch of operations (the empty one too), with or
\* without nodes next to it, or a graph.
TurnAnswers ==
  {[AiOps(ops) EXCEPT !.nodes = ns] :
      ops \in SeqsUpTo(OpChoices, MaxOps), ns \in {<<>>, DecoyNodes}}
  \cup
  {AiGraph(ns, es) : ns \in SeqsUpTo(NormNodeChoices, MaxNormNodes),
                     es \in {<<>>} \cup {<<e>> : e \in NormEdgeChoices}}

\* A stored diagram after its first commit, read by a controller whose AI call
\* returned an answer.
TurnInit ==
  /\ \E g \in StoredGraphs :
       db = [createDiagram("T") EXCEPT !.nodes = g.nodes, !.edges = g.edges, !.version = 1]
  /\ \E ai \in TurnAnswers, ctl \in OpsControllers :
       cIn = [ai |-> ai, ctl |-> ctl, existing |-> db]
  /\ cOut = <<>>
  /\ cPc = "process"
  /\ store = <<>>
  /\ gen = <<>>
  /\ NormOff
  /\ OpsOff
  /\ req = [r \in Requests |-> IdleReq]
  /\ started = 0

\* processAIGenerationResult(ai, existing, prompt).
TurnProcess ==
  /\ cPc = "process"
  /\ cOut' = processAIGenerationResult(cIn.ai, cIn.existing)
  /\ cPc' = "write"
  /\ UNCHANGED <<cIn, store, gen, normVars, opsVars, db, reqVars>>

\* The commit of the graph of the turn.
TurnCommit ==
  /\ cPc = "write"
  /\ cOut.ok
  /\ db' = ResultWrite(db, cIn.existing.version, OpsUpdates(cIn.existing),
                       cOut.nodes, cOut.edges).doc
  /\ cPc' = "committed"
  /\ UNCHANGED <<cIn, cOut, store, gen, normVars, opsVars, reqVars>>

\* The error report of a turn whose answer could not be processed.
TurnReport ==
  /\ cPc = "write"
  /\ ~cOut.ok
  /\ db' = ErrorReportWrite(cIn.ctl, db, cIn.existing.version, OpsUpdates(cIn.existing),
                            ReportedError(cIn.ctl, cOut.err, TRUE)).doc
  /\ cPc' = "reported"
  /\ UNCHANGED <<cIn, cOut, store, gen, normVars, opsVars, reqVars>>

TurnNext == TurnProcess \/ TurnCommit \/ TurnReport

SpecTurn == TurnInit /\ [][TurnNext]_vars

\* The graph the answer stands for: the existing graph patched by the ops and
\* normalized, or the answer's own graph normalized.
ExpectedGraph(ai, existing) ==
  IF ai.kind = "ops"
  THEN LET applied == applyOpsInMemory(existing, ai.ops)
       IN  normalizeErd(GraphInput(applied.nodes, applied.edges))
  ELSE normalizeErd(GraphInput(ai.nodes, ai.edges))

\* C22: when the answer has an ops array, the empty one included, the graph
\* committed is normalizeErd(applyOpsInMemory(existing, ops)) whatever nodes and
\* edges came with it; when it has none, the graph committed is normalizeErd of
\* the answer's nodes and edges and nothing of the existing graph is kept.
C22_CommittedGraph ==
  cPc = "committed" =>
    LET exp == ExpectedGraph(cIn.ai, cIn.existing)
    IN  /\ exp.ok
        /\ db.nodes = exp.nodes
        /\ db.edges = exp.edges

C22_Witness ==
  /\ cPc = "committed"
  /\ cIn.ai.kind = "ops"
  /\ cIn.ai.ops = <<>>
  /\ cIn.ai.nodes = DecoyNodes
  /\ Len(cIn.existing.nodes) = 2
  /\ db.nodes = cIn.existing.nodes
  /\ db.version = 2

(* ------------------ the event channel of a streaming update ------------- *)
MaxChunks == 2

\* The number of heartbeat ticks followed.
MaxTicks == 2

\* The request after its read, before the first event: cIn.chunks progress
\* chunks are to come from the provider before the complete chunk.
SseIdle ==
  [pc |-> "start", connected |-> TRUE, timer |-> "off", isComplete |-> FALSE,
   chunks |-> 0, ticks |-> 0, failed |-> FALSE, after |-> 0, escaped |-> {},
   reported |-> FALSE, ended |-> FALSE]

\* res.write on the channel: it may throw only once the client is gone.
WriteOutcomes(c) == IF c.connected THEN {"written"} ELSE {"dropped", "throws"}

\* sendSSE(data): the write is attempted, and its error is logged and thrown
\* again.  after counts the events pushed after a write has failed.
sendSSE(c, out) ==
  [c EXCEPT !.after = IF c.failed THEN @ + 1 ELSE @,
            !.failed = @ \/ out = "throws"]

\* The client goes away.
SseDisconnect ==
  /\ cPc = "sse"
  /\ cOut.connected
  /\ cOut.pc # "done"
  /\ cOut' = [cOut EXCEPT !.connected = FALSE]
  /\ UNCHANGED <<cIn, cPc, store, gen, normVars, opsVars, db, reqVars>>

\* The start event, then handleStreamingGeneration up to its first await: the
\* heartbeat timer is set.
SseStart ==
  /\ cPc = "sse"
  /\ cOut.pc = "start"
  /\ \E out \in WriteOutcomes(cOut) :
       LET c == sendSSE(cOut, out)
       IN  cOut' = IF out = "throws"
                   THEN [c EXCEPT !.pc = "catch"]
                   ELSE [c EXCEPT !.pc = "generating", !.timer = "on"]
  /\ UNCHANGED <<cIn, cPc, store, gen, normVars, opsVars, db, reqVars>>

\* A progress chunk of the provider: its event is pushed; an error leaves the
\* loop through finally (clearInterval) and the catch, which returns a failure.
SseProgress ==
  /\ cPc = "sse"
  /\ cOut.pc = "generating"
  /\ cOut.chunks < cIn.chunks
  /\ \E out \in WriteOutcomes(cOut) :
       LET c == [sendSSE(cOut, out) EXCEPT !.chunks = @ + 1]
       IN  cOut' = IF out = "throws"
                   THEN [c EXCEPT !.pc = "failed", !.timer = "cleared"]
                   ELSE c
  /\ UNCHANGED <<cIn, cPc, store, gen, normVars, opsVars, db, reqVars>>

\* The complete chunk: the timer is cleared; the chunk carries an error or a
\* result.
SseComplete ==
  /\ cPc = "sse"
  /\ cOut.pc = "generating"
  /\ cOut.chunks = cIn.chunks
  /\ \E success \in BOOLEAN :
       cOut' = [cOut EXCEPT !.pc = IF success THEN "succeeded" ELSE "failed",
                            !.isComplete = TRUE, !.timer = "cleared"]
  /\ UNCHANGED <<cIn, cPc, store, gen, normVars, opsVars, db, reqVars>>

\* A tick of the heartbeat timer while the request awaits the provider: the
\* callback pushes a heartbeat; nothing in the callback catches the error of
\* sendSSE, and nothing clears the timer.
SseTick ==
  /\ cPc = "sse"
  /\ cOut.timer = "on"
  /\ cOut.ticks < MaxTicks
  /\ \E out \in WriteOutcomes(cOut) :
       LET c == [sendSSE(cOut, out) EXCEPT !.ticks = @ + 1]
       IN  cOut' = IF cOut.isComplete THEN [cOut EXCEPT !.ticks = @ + 1]
                   ELSE IF out = "throws"
                   THEN [c EXCEPT !.escaped = @ \cup {"timer"}]
                   ELSE c
  /\ UNCHANGED <<cIn, cPc, store, gen, normVars, opsVars, db, reqVars>>

\* The last event of the try block (error of the generation, version conflict
\* or complete) and res.end(); an error of sendSSE goes to the catch block.
SseFinal ==
  /\ cPc = "sse"
  /\ cOut.pc \in {"failed", "succeeded"}
  /\ \E out \in WriteOutcomes(cOut) :
       LET c == sendSSE(cOut, out)
       IN  cOut' = IF out = "throws"
                   THEN [c EXCEPT !.pc = "catch"]
                   ELSE [c EXCEPT !.pc = "done", !.ended = TRUE]
  /\ UNCHANGED <<cIn, cPc, store, gen, normVars, opsVars, db, reqVars>>

\* The catch block: the error report is written, then the error event is
\* pushed; an error of sendSSE leaves the block for the catch of the handler.
SseCatch ==
  /\ cPc = "sse"
  /\ cOut.pc = "catch"
  /\ \E out \in WriteOutcomes(cOut) :
       LET c == [sendSSE(cOut, out) EXCEPT !.reported = TRUE]
       IN  cOut' = IF out = "throws"
                   THEN [c EXCEPT !.pc = "outer"]
                   ELSE [c EXCEPT !.pc = "done", !.ended = TRUE]
  /\ UNCHANGED <<cIn, cPc, store, gen, normVars, opsVars, db, reqVars>>

\* The catch of the handler: res.status(500).json(...) on a response whose
\* headers are sent; the framework drops it or throws.
SseOuter ==
  /\ cPc = "sse"
  /\ cOut.pc = "outer"
  /\ \E thrown \in BOOLEAN :
       cOut' = [cOut EXCEPT !.pc = "done",
                            !.escaped = IF thrown THEN @ \cup {"handler"} ELSE @]
  /\ UNCHANGED <<cIn, cPc, store, gen, normVars, opsVars, db, reqVars>>

SseInit ==
  /\ cIn \in [chunks : 0..MaxChunks]
  /\ cOut = SseIdle
  /\ cPc = "sse"
  /\ store = <<>>
  /\ gen = <<>>
  /\ MainOff

SseNext ==
  \/ SseDisconnect
  \/ SseStart
  \/ SseProgress
  \/ SseComplete
  \/ SseTick
  \/ SseFinal
  \/ SseCatch
  \/ SseOuter

SpecSse == SseInit /\ [][SseNext]_vars

\* C23: once a write to the channel has failed, the heartbeat timer is not
\* running, no further event is pushed, and no exception has left the request
\* handler or a timer callback.
C23_WriteFailureContained ==
  (cPc = "sse" /\ cOut.failed) =>
    /\ cOut.timer # "on"
    /\ cOut.after = 0
    /\ cOut.escaped = {}

(* ------------------ claim about the code CONFLICT ----------------------- *)
\* C24: a response carries the code CONFLICT exactly when a version-conditioned
\* write of the request was rejected because the stored version did not match;
\* a request that failed for another reason (a field id that already exists, a
\* validation failure) carries a different code.
C24_ConflictIffVersionMismatch ==
  \A r \in Requests :
    req[r].pc = "done" =>
      /\ req[r].resp = "CONFLICT" => req[r].wrote = "rejected"
      /\ (req[r].wrote = "rejected" /\ req[r].fail = "") => req[r].resp = "CONFLICT"

(* ------------------ a version number in the request body ---------------- *)
MaxVersion == 2

\* The version of an update body: absent, or a number.
BodyVersions == {[given |-> FALSE, n |-> 0]} \cup {[given |-> TRUE, n |-> n] : n \in 0..MaxVersion}

\* UpdateDiagramReq.safeParse: the body is a z.object without a version key, and
\* z.object drops the keys it does not declare.
ParsedVersion(v) == [given |-> FALSE, n |-> 0]

\* (parsed.data.body as any).version
clientVersion(raw) == ParsedVersion(raw)

\* typeof clientVersion === "number" ? clientVersion : (existing.version ?? 0);
\* the manual path filters on existing.version.
baseVersion(path, raw, existing) ==
  IF path = "ai" /\ clientVersion(raw).given THEN clientVersion(raw).n ELSE existing.version

\* A stored diagram at some version; an update request with or without a version
\* in its body, on the manual or the AI path.
VerInit ==
  /\ \E v \in 0..MaxVersion : db = [createDiagram("T") EXCEPT !.version = v]
  /\ cIn \in [path : {"manual", "ai"}, version : BodyVersions]
  /\ cOut = [base |-> 0, saw |-> 0, resp |-> "", others |-> 0]
  /\ cPc = "read"
  /\ store = <<>>
  /\ gen = <<>>
  /\ NormOff
  /\ OpsOff
  /\ req = [r \in Requests |-> IdleReq]
  /\ started = 0

\* The request up to its write: parse, findOne, the version to filter on.
VerRead ==
  /\ cPc = "read"
  /\ cOut' = [cOut EXCEPT !.base = baseVersion(cIn.path, cIn.version, findOne(db))]
  /\ cPc' = "write"
  /\ UNCHANGED <<cIn, store, gen, normVars, opsVars, db, reqVars>>

\* A write of another request between the read and the write.
VerOther ==
  /\ cPc = "write"
  /\ db.version < MaxVersion + 1
  /\ db' = findOneAndUpdate(db, db.version,
             SetDoc("T2", Undef, Undef, Undef, FALSE, <<>>, <<>>, FALSE, <<>>)).doc
  /\ cOut' = [cOut EXCEPT !.others = @ + 1]
  /\ UNCHANGED <<cIn, cPc, store, gen, normVars, opsVars, reqVars>>

\* The write of the request: the manual replacement or the commit of the AI
\* result, and the response.
VerWrite ==
  /\ cPc = "write"
  /\ LET strict == normalizeErd(GraphInput(<<TUsers>>, <<>>))
         w == IF cIn.path = "manual"
              THEN findOneAndUpdate(db, cOut.base,
                     SetDoc(Undef, Undef, Undef, Undef, TRUE, strict.nodes, strict.edges,
                            FALSE, <<>>))
              ELSE ResultWrite(db, cOut.base, OpsUpdates(db), strict.nodes, strict.edges)
     IN  /\ db' = w.doc
         /\ cOut' = [cOut EXCEPT !.saw = db.version,
                                 !.resp = IF w.found THEN "OK" ELSE "CONFLICT"]
  /\ cPc' = "done"
  /\ UNCHANGED <<cIn, store, gen, normVars, opsVars, reqVars>>

VerNext == VerRead \/ VerOther \/ VerWrite

SpecVer == VerInit /\ [][VerNext]_vars

\* C25: a request whose body carries a version number is rejected with CONFLICT
\* when that number differs from the stored version at its write, also when no
\* other write came between its read and its write, and is applied when the
\* number matches; on the manual path and on the AI path.
C25_ConditionedOnSuppliedVersion ==
  (cPc = "done" /\ cIn.version.given) =>
    (cOut.resp = "CONFLICT" <=> cIn.version.n # cOut.saw)

(* ------------------ claim about unique ids ------------------------------ *)
UniqueNodeIds(nodes) ==
  \A i, j \in 1..Len(nodes) : nodes[i].id = nodes[j].id => i = j

UniqueFieldIds(nodes) ==
  \A n \in 1..Len(nodes) :
    \A i, j \in 1..Len(nodes[n].schema) :
      nodes[n].schema[i].id = nodes[n].schema[j].id => i = j

\* The first operation of the batch adds a field whose id its table already has.
AddsExistingField(doc, ops) ==
  /\ Len(ops) >= 1
  /\ ops[1].op = "add_field"
  /\ \E i \in 1..Len(doc.nodes) :
       doc.nodes[i].id = ops[1].tableId /\ HasField(doc.nodes[i].schema, ops[1].id)

\* C26: the stored diagram, whose ids are unique at the start, keeps them unique
\* through every AI turn (a batch of patch operations or a generated graph): no
\* node has two fields with one id, no two nodes share an id; and a batch that
\* adds a field whose id the table already has is not committed.
C26_IdsStayUnique ==
  /\ UniqueNodeIds(db.nodes)
  /\ UniqueFieldIds(db.nodes)
  /\ (cPc = "committed" /\ cIn.ai.kind = "ops") => ~AddsExistingField(cIn.existing, cIn.ai.ops)

(* ------------------ claim about delete_field ---------------------------- *)
\* The handle is '<fieldId>-left' or '<fieldId>-right'.
NamesField(h, fieldId) == h \in {Append(fieldId, "left"), Append(fieldId, "right")}

DeleteHolds(before, after, tableId, fieldId) ==
  LET Kept(f) == f.id # fieldId
      Stays(e) == ~(NamesField(e.sourceHandle, fieldId) \/ NamesField(e.targetHandle, fieldId))
  IN  /\ \A k \in 1..Len(after.objs) :
           after.objs[k].schema =
             IF k = MapGet(before.map, tableId)
             THEN SelectSeq(WithData(before.objs[k]).schema, Kept)
             ELSE before.objs[k].schema
      /\ ~HasField(after.objs[MapGet(after.map, tableId)].schema, fieldId)
      /\ \A k \in 1..Len(after.edges) : Stays(after.edges[k])
      /\ after.edges = SelectSeq(before.edges, Stays)

\* C27: right after a delete_field(tableId, fieldId) that succeeded, the table
\* no longer has the field, no edge has the handle '<fieldId>-left' or
\* '<fieldId>-right' at either end, and the rest is as before: the other fields
\* of every table and the edges that do not name the field, in their order.
C27_DeleteFieldRemovesEdges ==
  oPc \in {"write", "done"} =>
    \A i \in 1..Len(oOps) :
      Succeeded(oDoc, oOps, i, "delete_field") =>
        DeleteHolds(StateAt(oDoc, oOps, i - 1), StateAt(oDoc, oOps, i),
                    oOps[i].tableId, oOps[i].fieldId)

(* ------------------ claim about a failed AI turn ------------------------ *)
\* C28: after an AI turn that failed, the stored diagram has the nodes and the
\* edges it had when the request read it; the error report changed at most
\* chat, prompt, model, title, type and version.
C28_FailedTurnKeepsGraph ==
  (oPc = "done" /\ ~oRes.ok) =>
    /\ db.nodes = oDoc.nodes
    /\ db.edges = oDoc.edges
    /\ db.exists = oDoc.exists
    /\ db.rev = oDoc.rev

(* ------------------ creation limits under concurrency ------------------- *)
\* The create requests in flight at once.
Creators == {"r1", "r2"}

\* The guest a1 and the free user u1, the owners the limits apply to.
Limited == {[user |-> Undef, aid |-> "a1"], [user |-> "u1", aid |-> Undef]}

\* DiagramModel.create({...owner, title, ...}).
NewDiagram(idn, title) ==
  LET owner == getOwnerFilter(idn)
  IN  [userId |-> IF owner.field = "userId" THEN owner.value ELSE "null",
       ownerAnonId |-> IF owner.field = "ownerAnonId" THEN owner.value ELSE "null",
       title |-> title]

\* n diagrams of one owner.
DiagramsOf(idn, n) == [i \in 1..n |-> NewDiagram(idn, "T")]

\* A store in which the guest and the free user own diagrams within their
\* limits; two create requests and one sign-in of the guest as u1 are to come.
LimitInit ==
  /\ \E g \in 0..GUEST_DIAGRAM_LIMIT, u \in 0..FREE_PLAN_DIAGRAM_LIMIT :
       store = DiagramsOf([user |-> Undef, aid |-> "a1"], g)
                 \o DiagramsOf([user |-> "u1", aid |-> Undef], u)
  /\ cIn \in [Creators -> Limited]
  /\ cPc = [r1 |-> "idle", r2 |-> "idle", merge |-> "idle"]
  /\ cOut = [r1 |-> "", r2 |-> "", merge |-> ""]
  /\ gen = <<>>
  /\ MainOff

\* createDiagram up to the answer of validateDiagramLimits.
LimitCheck(r) ==
  /\ cPc[r] = "idle"
  /\ IF validateDiagramLimits(cIn[r])
     THEN cPc' = [cPc EXCEPT ![r] = "create"] /\ UNCHANGED cOut
     ELSE cPc' = [cPc EXCEPT ![r] = "done"] /\ cOut' = [cOut EXCEPT ![r] = "LIMIT_REACHED"]
  /\ UNCHANGED <<cIn, store, gen, normVars, opsVars, db, reqVars>>

\* createDiagram after the check: DiagramModel.create.
LimitCreate(r) ==
  /\ cPc[r] = "create"
  /\ store' = Append(store, NewDiagram(cIn[r], "T2"))
  /\ cPc' = [cPc EXCEPT ![r] = "done"]
  /\ cOut' = [cOut EXCEPT ![r] = "CREATED"]
  /\ UNCHANGED <<cIn, gen, normVars, opsVars, db, reqVars>>

\* mergeGuestDiagramsToUser("a1", "u1", "free") up to the answer of
\* countDocuments.
MergeCheck ==
  /\ cPc.merge = "idle"
  /\ IF countDocuments("userId", "u1") >= 10
     THEN cPc' = [cPc EXCEPT !.merge = "done"] /\ cOut' = [cOut EXCEPT !.merge = "merged 0"]
     ELSE cPc' = [cPc EXCEPT !.merge = "update"] /\ UNCHANGED cOut
  /\ UNCHANGED <<cIn, store, gen, normVars, opsVars, db, reqVars>>

\* The updateMany of the merge, in its transaction.
MergeUpdateMany ==
  /\ cPc.merge = "update"
  /\ store' = [i \in 1..Len(store) |->
                 IF store[i].ownerAnonId = "a1" THEN mergeUpdate(store[i], "u1")
                 ELSE store[i]]
  /\ cPc' = [cPc EXCEPT !.merge = "done"]
  /\ cOut' = [cOut EXCEPT !.merge = "merged"]
  /\ UNCHANGED <<cIn, gen, normVars, opsVars, db, reqVars>>

LimitNext ==
  \/ \E r \in Creators : LimitCheck(r)
  \/ \E r \in Creators : LimitCreate(r)
  \/ MergeCheck
  \/ MergeUpdateMany

SpecLimit == LimitInit /\ [][LimitNext]_vars

\* C29: whatever the interleaving of create requests and merges, the guest owns
\* at most 4 diagrams and the free user at most 10.
C29_LimitsHold ==
  /\ countDocuments("ownerAnonId", "a1") <= GUEST_DIAGRAM_LIMIT
  /\ countDocuments("userId", "u1") <= FREE_PLAN_DIAGRAM_LIMIT

(* ------------------ one request on a diagram of some owner -------------- *)
\* The identities a request can come with: a user, or a guest with its cookie.
Requesters == {idn \in Identities : getOwnerFilter(idn).ok}

AccessKinds == {"getDiagram", "deleteDiagram", "updateDiagramStream", "updateNodeField"}

\* A stored diagram with the version the controllers filter on.
Versioned(d, v) == d @@ [version |-> v]

\* A diagram of the guest a1 and one of the user u2; one request of some
\* identity on one of them.
AccessInit ==
  /\ store = <<Versioned(NewDiagram([user |-> Undef, aid |-> "a1"], "T"), 0),
               Versioned(NewDiagram([user |-> "u2", aid |-> Undef], "T"), 0)>>
  /\ cIn \in [idn : Requesters, i : 1..2, kind : AccessKinds]
  /\ cOut = [resp |-> "", found |-> FALSE, effect |-> FALSE, owned |-> FALSE,
             base |-> 0, merged |-> FALSE]
  /\ cPc = "begin"
  /\ gen = <<>>
  /\ MainOff

\* The request up to its first call of the store: findOne({_id, ...owner}) of
\* getDiagram, updateDiagramStream and loadDiagramWithNode, deleteOne({_id,
\* ...owner}) of deleteDiagram.
AccessBegin ==
  /\ cPc = "begin"
  /\ LET d     == store[cIn.i]
         found == Owns(getOwnerFilter(cIn.idn), d)
         c     == [cOut EXCEPT !.found = found]
     IN  IF ~found
         THEN /\ cOut' = [c EXCEPT !.resp = "NOT_FOUND"]
              /\ cPc' = "done"
              /\ UNCHANGED store
         ELSE IF cIn.kind = "getDiagram"
         THEN /\ cOut' = [c EXCEPT !.resp = "OK", !.effect = TRUE, !.owned = TRUE]
              /\ cPc' = "done"
              /\ UNCHANGED store
         ELSE IF cIn.kind = "deleteDiagram"
         THEN /\ cOut' = [c EXCEPT !.resp = "OK", !.effect = TRUE, !.owned = TRUE]
              /\ cPc' = "done"
              /\ store' = SubSeq(store, 1, cIn.i - 1) \o SubSeq(store, cIn.i + 1, Len(store))
         ELSE /\ cOut' = [c EXCEPT !.base = d.version]
              /\ cPc' = "write"
              /\ UNCHANGED store
  /\ UNCHANGED <<cIn, gen, normVars, opsVars, db, reqVars>>

\* The guest a1 signs in as u1: mergeGuestDiagramsToUser("a1", "u1", "free").
AccessMerge ==
  /\ ~cOut.merged
  /\ countDocuments("userId", "u1") < 10
  /\ store' = [i \in 1..Len(store) |->
                 IF store[i].ownerAnonId = "a1" THEN mergeUpdate(store[i], "u1")
                 ELSE store[i]]
  /\ cOut' = [cOut EXCEPT !.merged = TRUE]
  /\ UNCHANGED <<cIn, cPc, gen, normVars, opsVars, db, reqVars>>

\* The write of the request: findOneAndUpdate({_id, version: baseVersion}) of
\* updateDiagramWithResults, or diagram.save() of the field handlers; neither
\* names the owner.
AccessWrite ==
  /\ cPc = "write"
  /\ LET d     == store[cIn.i]
         match == cIn.kind = "updateNodeField" \/ d.version = cOut.base
     IN  /\ store' = IF match
                     THEN [store EXCEPT ![cIn.i].title = "T2",
                                        ![cIn.i].version =
                                           IF cIn.kind = "updateNodeField" THEN @ ELSE @ + 1]
                     ELSE store
         /\ cOut' = [cOut EXCEPT !.resp = IF match THEN "OK" ELSE "CONFLICT",
                                 !.effect = match,
                                 !.owned = Owns(getOwnerFilter(cIn.idn), d)]
  /\ cPc' = "done"
  /\ UNCHANGED <<cIn, gen, normVars, opsVars, db, reqVars>>

AccessNext == AccessBegin \/ AccessMerge \/ AccessWrite

SpecAccess == AccessInit /\ [][AccessNext]_vars

\* C30: a request has an effect on a diagram (it reads, changes or deletes it)
\* only if its identity owns the diagram at the moment of the effect, also when
\* a merge moved the diagram between the request's read and its write; a
\* request of another identity is answered NOT_FOUND and has no effect.
C30_OnlyTheOwnerActs ==
  /\ cOut.effect => cOut.owned
  /\ (cPc = "done" /\ ~cOut.found) => (cOut.resp = "NOT_FOUND" /\ ~cOut.effect)

(* ------------------ claim about the inferred markerEnd ------------------ *)
\* The table of the claim: the marker for a target field's key and nullable.
ExpectedMarkerEnd(key, nullable) ==
  IF key = "PK" THEN (IF nullable = "true" THEN "zero-to-one-end" ELSE "one-end")
  ELSE IF key = "FK" THEN (IF nullable = "true" THEN "zero-to-many-end" ELSE "many-end")
  ELSE (IF nullable = "true" THEN "zero-to-many-end" ELSE "many-end")

\* The field id a handle names: the handle without a trailing -left or -right.
NamedField(h) ==
  IF Len(h) >= 2 /\ h[Len(h)] \in {"left", "right"} THEN SubSeq(h, 1, Len(h) - 1) ELSE h

\* C12: an edge given without markerEnd gets it from the key and nullable of the
\* field its target handle names, by the table of six cases; many-end when the
\* target node or that field is not found; a given markerEnd is kept.
C12_MarkerEndInferred ==
  nPc = "returned" =>
    /\ nOut.ok
    /\ \A i \in 1..Len(nIn.edges) :
         LET e     == nIn.edges[i]
             hits  == {k \in 1..Len(nIn.nodes) : nIn.nodes[k].id = e.target}
             named == NamedField(e.targetHandle)
         IN  nOut.edges[i].markerEnd =
               IF e.markerEnd # Undef THEN e.markerEnd
               ELSE IF hits = {} \/ named = NoHandle THEN "many-end"
               ELSE LET t == nIn.nodes[CHOOSE k \in hits : TRUE]
                        fs == {j \in 1..Len(t.schema) : t.schema[j].id = named}
                    IN  IF fs = {} THEN "many-end"
                        ELSE LET f == t.schema[CHOOSE j \in fs : TRUE]
                             IN  ExpectedMarkerEnd(f.key, f.nullable)

\* A nullable primary key at the target, named by a handle without a side.
C12_Witness ==
  /\ nPc = "returned"
  /\ nOut.ok
  /\ nIn.edges[1].markerEnd = Undef
  /\ nIn.edges[1].target = "users"
  /\ nIn.edges[1].targetHandle = <<"users", "id">>
  /\ nIn.nodes[1].schema[1].key = "PK"
  /\ nIn.nodes[1].schema[1].nullable = "true"
  /\ nOut.edges[1].markerEnd = "zero-to-one-end"

(* ----------------------- claims about one AI turn ----------------------- *)
\* The user message of request rq.
UserMsg(rq) == Msg("user", <<TrimS(rq.body.prompt)>>)

\* An AI request between its read and its write: the user message is the last
\* of its chat and it has written nothing.
C17_InFlight ==
  \A r \in Requests :
    (req[r].path = "ai" /\ req[r].pc \in {"ai", "write", "report"}) =>
      /\ req[r].wrote = "none"
      /\ req[r].chat # <<>>
      /\ req[r].chat[Len(req[r].chat)] = UserMsg(req[r])

C17_Step ==
  \A r \in Requests :
    /\ (req[r].pc = "idle" /\ req'[r].path = "ai") => (req'[r].pc = "ai" /\ db' = db)
    /\ (req[r].pc = "ai" /\ req'[r].pc # "ai") =>
         (req'[r].pc \in {"write", "report"} /\ db' = db /\ req'[r].chat = req[r].chat)
    /\ (req[r].path = "ai" /\ req[r].pc = "write" /\ req'[r].pc # "write") =>
         /\ req'[r].pc = "done"
         /\ req'[r].wrote = "applied" =>
              /\ db'.version = db.version + 1
              /\ Len(db'.chat) = Len(db.chat) + 2
              /\ SubSeq(db'.chat, 1, Len(db.chat)) = db.chat
              /\ db'.chat[Len(db.chat) + 1] = UserMsg(req[r])
              /\ db'.chat[Len(db.chat) + 2].role = "assistant"
    /\ (req[r].path = "ai" /\ req[r].pc = "done" /\ req'[r].pc # "done") =>
         (req'[r].pc = "idle" /\ db' = db)

C18_OneErrorReport ==
  [][\A r \in Requests :
       (req[r].pc = "report" /\ req'[r].pc # "report") =>
         /\ req'[r].pc = "done"
         /\ req'[r].wrote \in {"applied", "rejected"}
         /\ req'[r].wrote = "applied" <=> db.version = req[r].base
         /\ req'[r].wrote = "applied" => db'.version = db.version + 1
         /\ req'[r].wrote = "rejected" => db' = db
         /\ req'[r].resp =
              IF IsQuotaError(req[r].fail) THEN "AI_QUOTA_EXCEEDED" ELSE "AI_FAILED"]_vars

(* ------------------------ a long chat history --------------------------- *)
\* The chat after n successful AI turns on a new diagram: a user message and
\* an assistant message per turn, cut to the last MAX_CHAT_HISTORY after each.
History(n) ==
  SliceLast([i \in 1..(2 * n) |->
               IF i % 2 = 1 THEN Msg("user", <<ToString((i + 1) \div 2)>>)
               ELSE Msg("assistant", AssistantSummary)],
            MAX_CHAT_HISTORY)

\* A diagram that has had 49 AI turns: the next turn fills the chat to the
\* limit and the one after it exceeds it.
ChatInit ==
  /\ db = [createDiagram("T0") EXCEPT !.chat = History(49), !.version = 49]
  /\ req = [r \in Requests |-> IdleReq]
  /\ started = 0
  /\ NormOff
  /\ OpsOff
  /\ AuxOff

\* The requests that read or write the chat or the version.
ChatNext ==
  \E r \in Requests :
    \/ UpdateDiagramBegin(r)
    \/ UpdateDiagramStreamBegin(r)
    \/ AiResolve(r)
    \/ ManualWrite(r)
    \/ MetaWrite(r)
    \/ AiCommit(r)
    \/ AiReport(r)
    \/ AiReportSSE(r)
    \/ Respond(r)

SpecChat == ChatInit /\ [][ChatNext]_vars

\* A step that changes the stored chat appends a user message and then an
\* assistant message, and drops from the front what exceeds the limit.
C16_Step ==
  db'.chat # db.chat =>
    LET old == db.chat
        new == db'.chat
        n   == Len(new)
    IN  /\ n = IF Len(old) + 2 > MAX_CHAT_HISTORY THEN MAX_CHAT_HISTORY ELSE Len(old) + 2
        /\ new[n - 1].role = "user"
        /\ new[n].role = "assistant"
        /\ SubSeq(new, 1, n - 2) = SubSeq(old, Len(old) - (n - 2) + 1, Len(old))

====
